---- MODULE Spec2Model ----
(***************************************************************************)
(* A model of the switch command/response pipeline of the Arista EOS       *)
(* manager: the session registry (connectionManager.js), the eAPI          *)
(* transport and switch-info parser (aristaAPI), and the domain services   *)
(* that wrap configuration commands (interfaceConfig, vlanConfig,          *)
(* routingConfig, cliCommands).                                            *)
(*                                                                         *)
(* JavaScript runs the application on one thread: a step of the model is   *)
(* the synchronous code between two awaits.  A call that awaits a network  *)
(* round trip is a task in `tasks` until the device's response arrives.    *)
(***************************************************************************)
EXTENDS Integers, Sequences, FiniteSets, TLC

VARIABLES
  connections,  \* the registry Map, as the sequence of its entries in insertion order
  tasks,        \* the calls suspended at an await (a request is on the wire)
  ra,           \* the refreshAllConnections call: its promise and what it fanned out
  ev,           \* what the last step did: the call that settled, its result, the requests issued
  snap,         \* history: what getAllSwitchData() returned when refreshAllConnections was called
  svc,          \* history: the last call of a domain service, and the executeCommands calls it made
  dev,          \* the device the serial-numbered session talks to, where a specification follows it
  bgp,          \* the getBgpConfig call in progress, and what the last one received and held
  topo,         \* the buildNetworkTopology call: its position, its graph, (history) its calls
  cli           \* the CLI tab: configMode, configBuffer, (history) its last executeCommand

vars == <<connections, tasks, ra, ev, snap, svc, dev, bgp, topo, cli>>

----------------------------------------------------------------------------
(* Bounds of the model *)

\* calls that may be suspended at an await at the same time
MaxInFlight == 2

----------------------------------------------------------------------------
(* The environment: devices, what they answer *)

\* addresses an operator may connect to: "ipA" is a switch that reports a
\* serial number, "ipC" is one whose 'show version' has none
Addresses == {"ipA", "ipC"}

SerialOf(ip) == IF ip = "ipA" THEN "SN-A" ELSE ""

\* the values Math.random().toString(36).substring(7) may take
RandomIds == {"rnd1", "rnd2"}

\* the credentials of a createConnection call
Credentials == {"admin"}

NoHandle == [ip |-> "-", cred |-> "-"]

\* the CPU percentage of the one process a device reports: the load of "ipA"
\* varies between two fetches, that of "ipC" does not
Loads(ip) == IF ip = "ipA" THEN {10, 20} ELSE {10}

NoRaw == [len |-> 0, serialNumber |-> "", cpuPcts |-> <<>>, memTotal |-> 0,
          memFree |-> 0, links |-> <<>>, temps |-> <<>>]

\* the result array of the 7-command info request; len is the number of
\* entries the device returned
RawInfo(ip, len, load) ==
  [len |-> len, serialNumber |-> SerialOf(ip), cpuPcts |-> <<load>>,
   memTotal |-> 100, memFree |-> 100 - load, links |-> <<"connected", "notconnect">>,
   temps |-> <<40, 45>>]

\* the answer to one HTTP request: the fetch rejects ("netfail"), the status
\* is not 2xx ("http"), the JSON holds an error object ("apierr", with the
\* device's message and the results of the commands that ran before the
\* failing one), or it holds a result array ("ok")
Response(kind, status, message, data, result, raw) ==
  [kind |-> kind, status |-> status, message |-> message, data |-> data,
   result |-> result, raw |-> raw]

NoResponse == Response("none", 0, "", <<>>, <<>>, NoRaw)

FailureResponses ==
  { Response("netfail", 0, "Failed to fetch", <<>>, <<>>, NoRaw),
    Response("http", 401, "", <<>>, <<>>, NoRaw),
    Response("apierr", 200, "Bad credentials", <<>>, <<>>, NoRaw) }

\* answers to the 'show version' probe of connectToSwitch
ProbeResponses(ip) ==
  FailureResponses \cup { Response("ok", 200, "", <<>>, <<"version">>, NoRaw) }

\* answers to the info request of getSwitchInfo
InfoResponses(ip) ==
  FailureResponses \cup
  { Response("ok", 200, "", <<>>, <<>>, RawInfo(ip, 7, l)) : l \in Loads(ip) } \cup
  { Response("ok", 200, "", <<>>, <<>>, RawInfo(ip, n, 10)) : n \in {3, 4} }

\* the element of the result array for a command that ran
Output(cmd) == [ran |-> cmd]

\* answers to a runCommands request: every command ran, or command k failed
\* after the first k-1 produced their results
CmdResponses(cmds) ==
  { Response("netfail", 0, "Failed to fetch", <<>>, <<>>, NoRaw),
    Response("http", 500, "", <<>>, <<>>, NoRaw),
    Response("ok", 200, "", <<>>, [i \in 1..Len(cmds) |-> Output(cmds[i])], NoRaw) }
  \cup
  { Response("apierr", 200, "CLI command " \o ToString(k) \o " failed: invalid command",
             [i \in 1..(k - 1) |-> Output(cmds[i])], <<>>, NoRaw) : k \in 1..Len(cmds) }

----------------------------------------------------------------------------
(* aristaAPI: the transport and the switch-info parser *)

\* a thrown Error: its message, and the per-command results it carries
Err(message, results) == [message |-> message, results |-> results]

NoErr == Err("", <<>>)

\* The checks every request makes on its answer (connectToSwitch,
\* runCommands and getSwitchInfo have the same three): the fetch may reject,
\* !response.ok throws, data.error throws Error(`API Error: ${message}`).
TransportError(resp) ==
  CASE resp.kind = "netfail" -> Err(resp.message, <<>>)
    [] resp.kind = "http"    -> Err("HTTP error! status: " \o ToString(resp.status), <<>>)
    [] resp.kind = "apierr"  -> Err("API Error: " \o resp.message, <<>>)
    [] OTHER                 -> NoErr

TransportOk(resp) == resp.kind = "ok"

RECURSIVE SumSeq(_)
SumSeq(s) == IF s = <<>> THEN 0 ELSE Head(s) + SumSeq(Tail(s))

Min(a, b) == IF a < b THEN a ELSE b

\* Math.round(100 * (total - free) / total) for total > 0
RoundPct(num, den) == (200 * num + den) \div (2 * den)

Summary(id, status, cpuUsage, memoryUsage, temperature, activeInterfaces, totalInterfaces) ==
  [id |-> id, status |-> status, cpuUsage |-> cpuUsage, memoryUsage |-> memoryUsage,
   temperature |-> temperature,
   activeInterfaces |-> activeInterfaces, totalInterfaces |-> totalInterfaces]

NoSummary == Summary("", "", 0, 0, 0, 0, 0)

Parsed(ok, error, data) == [ok |-> ok, error |-> error, data |-> data]

\* processSwitchData(rawData), with rnd the value Math.random() yields when
\* the version result has no serial number.  Fewer than 4 results throw
\* 'Incomplete data'; with exactly 4 the temperature result rawData[4] is
\* undefined and reading temperatureData.sensors throws a TypeError.  With
\* fewer than 7 the top-processes result rawData[6] is undefined: the sum is
\* 0, memoryTotal is 1 and memoryFree is 0.  A sensor reading counts when it
\* is truthy and a number (temps holds numbers, 0 is the falsy one).  The
\* figures are whole numbers, so Math.round(cpuUsage) is cpuUsage.
processSwitchData(raw, rnd) ==
  IF raw.len < 4
  THEN Parsed(FALSE, Err("Incomplete data received from switch", <<>>), NoSummary)
  ELSE IF raw.len < 5
  THEN Parsed(FALSE, Err("Cannot read properties of undefined (reading 'sensors')", <<>>),
              NoSummary)
  ELSE
    LET hasProc == raw.len >= 7
        cpuUsage == IF hasProc THEN SumSeq(raw.cpuPcts) ELSE 0
        memoryTotal == IF hasProc /\ raw.memTotal # 0 THEN raw.memTotal ELSE 1
        memoryFree == IF hasProc THEN raw.memFree ELSE 0
        active == Cardinality({i \in 1..Len(raw.links) : raw.links[i] = "connected"})
        valid == SelectSeq(raw.temps, LAMBDA x : x # 0)
        temperature == IF Len(valid) > 0
                       THEN (2 * SumSeq(valid) + Len(valid)) \div (2 * Len(valid))
                       ELSE 0
    IN Parsed(TRUE, NoErr,
              Summary(IF raw.serialNumber # "" THEN raw.serialNumber ELSE rnd,
                      "online",
                      Min(cpuUsage, 100),
                      RoundPct(memoryTotal - memoryFree, memoryTotal),
                      temperature,
                      active, Len(raw.links)))

\* the values Math.random() may yield in a parse of raw: it is called only
\* when the version result has no serial number
RandomDraws(resp) ==
  IF TransportOk(resp) /\ resp.raw.len >= 5 /\ resp.raw.serialNumber = ""
  THEN RandomIds ELSE {"rnd1"}

----------------------------------------------------------------------------
(* JavaScript values the services receive and the coercions they apply.    *)
(* A string is the sequence of its characters; a number is its sign and    *)
(* its decimal digits, so that String(x) and parseInt(x) are computed on   *)
(* the characters as the engine does.                                      *)

DigitChars == <<"0", "1", "2", "3", "4", "5", "6", "7", "8", "9">>

Digits == {DigitChars[i] : i \in 1..10}

DigitVal(c) == (CHOOSE i \in 1..10 : DigitChars[i] = c) - 1

HexChars == <<"0", "1", "2", "3", "4", "5", "6", "7", "8", "9", "a", "b", "c", "d", "e", "f">>

HexDigits == {HexChars[i] : i \in 1..16} \cup {"A", "B", "C", "D", "E", "F"}

HexVal(c) ==
  CASE c = "A" -> 10 [] c = "B" -> 11 [] c = "C" -> 12 [] c = "D" -> 13
    [] c = "E" -> 14 [] c = "F" -> 15
    [] OTHER -> (CHOOSE i \in 1..16 : HexChars[i] = c) - 1

Letters ==
  {"a", "b", "c", "d", "e", "f", "g", "h", "i", "j", "k", "l", "m", "n", "o", "p", "q",
   "r", "s", "t", "u", "v", "w", "x", "y", "z",
   "A", "B", "C", "D", "E", "F", "G", "H", "I", "J", "K", "L", "M", "N", "O", "P", "Q",
   "R", "S", "T", "U", "V", "W", "X", "Y", "Z"}

WhiteSpace == {" ", "\t", "\n"}

JsVal(t, neg, int, frac, s) == [t |-> t, neg |-> neg, int |-> int, frac |-> frac, s |-> s]

JsUndefined == JsVal("undefined", FALSE, <<>>, <<>>, <<>>)
JsNull == JsVal("null", FALSE, <<>>, <<>>, <<>>)
JsNaN == JsVal("nan", FALSE, <<>>, <<>>, <<>>)

\* the number (-1)^neg * int.frac: int has no leading zero (<<"0">> is zero),
\* frac has no trailing zero (<<>> for an integer)
JsNum(neg, int, frac) == JsVal("number", neg, int, frac, <<>>)

JsStr(s) == JsVal("string", FALSE, <<>>, <<>>, s)

IsZero(v) == v.t = "number" /\ v.int = <<"0">> /\ v.frac = <<>>

\* ToBoolean(v): what !v negates
Truthy(v) ==
  CASE v.t \in {"undefined", "null", "nan"} -> FALSE
    [] v.t = "number" -> ~IsZero(v)
    [] OTHER -> v.s # <<>>

RECURSIVE StripLeft(_, _)
StripLeft(cs, drop) ==
  IF cs # <<>> /\ Head(cs) \in drop THEN StripLeft(Tail(cs), drop) ELSE cs

RECURSIVE StripRight(_, _)
StripRight(cs, drop) ==
  IF cs # <<>> /\ cs[Len(cs)] \in drop
  THEN StripRight(SubSeq(cs, 1, Len(cs) - 1), drop) ELSE cs

\* the longest prefix of cs whose characters are in set
RECURSIVE TakeWhile(_, _)
TakeWhile(cs, set) ==
  IF cs # <<>> /\ Head(cs) \in set THEN <<Head(cs)>> \o TakeWhile(Tail(cs), set) ELSE <<>>

\* digits without leading zeros
Canonical(ds) == LET r == StripLeft(ds, {"0"}) IN IF r = <<>> THEN <<"0">> ELSE r

RECURSIVE NatChars(_)
NatChars(n) ==
  IF n < 10 THEN <<DigitChars[n + 1]>> ELSE NatChars(n \div 10) \o <<DigitChars[(n % 10) + 1]>>

RECURSIVE HexToNat(_, _)
HexToNat(cs, acc) == IF cs = <<>> THEN acc ELSE HexToNat(Tail(cs), 16 * acc + HexVal(Head(cs)))

\* Number.prototype.toString of a number: plain decimal below 1e21, the
\* exponent form d[.ddd]e+N from 1e21 on
NumberChars(v) ==
  LET sign == IF v.neg /\ ~IsZero(v) THEN <<"-">> ELSE <<>>
  IN IF Len(v.int) > 21
     THEN LET mant == StripRight(v.int, {"0"})
          IN sign \o <<Head(mant)>>
                  \o (IF Len(mant) > 1 THEN <<".">> \o Tail(mant) ELSE <<>>)
                  \o <<"e", "+">> \o NatChars(Len(v.int) - 1)
     ELSE sign \o v.int \o (IF v.frac = <<>> THEN <<>> ELSE <<".">> \o v.frac)

\* String(v), as a template literal `${v}` applies it
ToStringJs(v) ==
  CASE v.t = "undefined" -> <<"u", "n", "d", "e", "f", "i", "n", "e", "d">>
    [] v.t = "null" -> <<"n", "u", "l", "l">>
    [] v.t = "nan" -> <<"N", "a", "N">>
    [] v.t = "number" -> NumberChars(v)
    [] OTHER -> v.s

\* parseInt(v) with no radix: String(v), leading white space skipped, an
\* optional sign, "0x"/"0X" selects radix 16, then the longest run of digits;
\* no digit gives NaN.  The rest of the string is ignored.
ParseInt(v) ==
  LET cs == StripLeft(ToStringJs(v), WhiteSpace)
      signed == cs # <<>> /\ Head(cs) \in {"+", "-"}
      neg == cs # <<>> /\ Head(cs) = "-"
      body == IF signed THEN Tail(cs) ELSE cs
      hex == Len(body) >= 2 /\ body[1] = "0" /\ body[2] \in {"x", "X"}
      run == IF hex THEN TakeWhile(SubSeq(body, 3, Len(body)), HexDigits)
             ELSE TakeWhile(body, Digits)
  IN IF run = <<>> THEN JsNaN
     ELSE IF hex THEN JsNum(neg, NatChars(HexToNat(run, 0)), <<>>)
     ELSE JsNum(neg, Canonical(run), <<>>)

\* isNaN(v) of a number
IsNaN(v) == v.t = "nan"

\* the order of two canonical digit sequences
RECURSIVE LexLess(_, _)
LexLess(a, b) ==
  IF a = <<>> THEN FALSE
  ELSE IF Head(a) # Head(b) THEN DigitVal(Head(a)) < DigitVal(Head(b))
  ELSE LexLess(Tail(a), Tail(b))

MagLess(a, b) == Len(a) < Len(b) \/ (Len(a) = Len(b) /\ LexLess(a, b))

\* v === k for a positive integer constant k
StrictEquals(v, k) == v.t = "number" /\ ~v.neg /\ v.int = k /\ v.frac = <<>>

\* v < 0
IsNegative(v) == v.t = "number" /\ v.neg /\ ~IsZero(v)

\* str.split(sep) for a one-character separator
RECURSIVE Split(_, _)
Split(cs, sep) ==
  IF \A i \in 1..Len(cs) : cs[i] # sep THEN <<cs>>
  ELSE LET k == CHOOSE i \in 1..Len(cs) : cs[i] = sep /\ \A j \in 1..(i - 1) : cs[j] # sep
       IN <<SubSeq(cs, 1, k - 1)>> \o Split(SubSeq(cs, k + 1, Len(cs)), sep)

\* str.trim()
Trim(cs) == StripRight(StripLeft(cs, WhiteSpace), WhiteSpace)

\* StringToNumber of a trimmed string: empty is 0; a hex literal; an optional
\* sign, digits and an optional fraction; anything else is NaN
StringToNumber(cs) ==
  LET signed == cs # <<>> /\ Head(cs) \in {"+", "-"}
      neg == cs # <<>> /\ Head(cs) = "-"
      body == IF signed THEN Tail(cs) ELSE cs
      hex == ~signed /\ Len(body) >= 3 /\ body[1] = "0" /\ body[2] \in {"x", "X"}
      int == TakeWhile(body, Digits)
      rest == SubSeq(body, Len(int) + 1, Len(body))
      frac == IF rest = <<>> THEN <<>> ELSE Tail(rest)
  IN IF cs = <<>> THEN JsNum(FALSE, <<"0">>, <<>>)
     ELSE IF hex
     THEN IF \A i \in 3..Len(body) : body[i] \in HexDigits
          THEN JsNum(FALSE, NatChars(HexToNat(SubSeq(body, 3, Len(body)), 0)), <<>>)
          ELSE JsNaN
     ELSE IF /\ int \o frac # <<>>
             /\ rest # <<>> => Head(rest) = "."
             /\ \A i \in 1..Len(frac) : frac[i] \in Digits
     THEN JsNum(neg, Canonical(int), StripRight(frac, {"0"}))
     ELSE JsNaN

\* ToNumber(v), as the relational operators apply it to a non-number
ToNumber(v) ==
  CASE v.t = "number" -> v
    [] v.t = "null" -> JsNum(FALSE, <<"0">>, <<>>)
    [] v.t = "string" -> StringToNumber(Trim(v.s))
    [] OTHER -> JsNaN

\* v < k for a positive integer constant k (NaN compares false)
LessThan(v, k) ==
  LET n == ToNumber(v)
  IN n.t = "number" /\ (n.neg \/ MagLess(n.int, k))

\* v > k for a positive integer constant k (NaN compares false)
GreaterThan(v, k) ==
  LET n == ToNumber(v)
  IN /\ n.t = "number"
     /\ ~n.neg
     /\ (MagLess(k, n.int) \/ (n.int = k /\ n.frac # <<>>))

----------------------------------------------------------------------------
(* The domain services: interfaceConfig, vlanConfig, routingConfig,        *)
(* cliCommands.  Each function is what it does up to its executeCommands   *)
(* call: it throws, or it calls executeCommands with a command list.       *)

Configure == <<"c", "o", "n", "f", "i", "g", "u", "r", "e">>
End == <<"e", "n", "d">>

Call(switchId, commands) == [switchId |-> switchId, commands |-> commands]

\* what a service function did before its await: threw error, or made calls
Outcome(threw, error, calls) == [threw |-> threw, error |-> error, calls |-> calls]

Throw(message) == Outcome(TRUE, message, <<>>)

Exec(switchId, commands) == Outcome(FALSE, "", <<Call(switchId, commands)>>)

\* array.filter(Boolean) over strings: the empty ones go
FilterBoolean(commands) == SelectSeq(commands, LAMBDA c : c # <<>>)

\* str.replace(/[^a-zA-Z0-9\/]/g, '') keeps the characters for which this holds
InterfaceNameChar(c) == c \in Letters \cup Digits \cup {"/"}

\* a faulty variant, for comparison: only the single quote is dropped
NotQuoteSingleOnly(c) == c # "'"

\* str.replace(/['"]/g, '') keeps the characters for which this holds
NotQuote(c) == c \notin {"'", "\""}

\* interfaceConfig.setInterfaceDescription
setInterfaceDescription(switchId, interfaceName, description) ==
  LET sanitizedInterface == SelectSeq(interfaceName, InterfaceNameChar)
      sanitizedDescription == SelectSeq(description, NotQuote)
  IN Exec(switchId, <<Configure,
                      <<"i", "n", "t", "e", "r", "f", "a", "c", "e", " ">> \o sanitizedInterface,
                      <<"d", "e", "s", "c", "r", "i", "p", "t", "i", "o", "n", " ">> \o sanitizedDescription,
                      End>>)

\* interfaceConfig.setInterfaceEnabled
setInterfaceEnabled(switchId, interfaceName, enabled) ==
  LET sanitizedInterface == SelectSeq(interfaceName, InterfaceNameChar)
  IN Exec(switchId, <<Configure,
                      <<"i", "n", "t", "e", "r", "f", "a", "c", "e", " ">> \o sanitizedInterface,
                      IF enabled THEN <<"n", "o", " ", "s", "h", "u", "t", "d", "o", "w", "n">> ELSE <<"s", "h", "u", "t", "d", "o", "w", "n">>,
                      End>>)

\* interfaceConfig.setInterfaceMode
setInterfaceMode(switchId, interfaceName, mode, vlan) ==
  LET sanitizedInterface == SelectSeq(interfaceName, InterfaceNameChar)
      head == <<Configure, <<"i", "n", "t", "e", "r", "f", "a", "c", "e", " ">> \o sanitizedInterface>>
      body == IF mode = <<"r", "o", "u", "t", "e", "d">> THEN <<<<"n", "o", " ", "s", "w", "i", "t", "c", "h", "p", "o", "r", "t">>>>
              ELSE <<<<"s", "w", "i", "t", "c", "h", "p", "o", "r", "t">>>> \o
                   (IF mode = <<"a", "c", "c", "e", "s", "s">> /\ Truthy(vlan)
                    THEN <<<<"s", "w", "i", "t", "c", "h", "p", "o", "r", "t", " ", "m", "o", "d", "e", " ", "a", "c", "c", "e", "s", "s">>,
                           <<"s", "w", "i", "t", "c", "h", "p", "o", "r", "t", " ", "a", "c", "c", "e", "s", "s", " ", "v", "l", "a", "n", " ">> \o ToStringJs(vlan)>>
                    ELSE IF mode = <<"t", "r", "u", "n", "k">> THEN <<<<"s", "w", "i", "t", "c", "h", "p", "o", "r", "t", " ", "m", "o", "d", "e", " ", "t", "r", "u", "n", "k">>>>
                    ELSE <<>>)
  IN Exec(switchId, head \o body \o <<End>>)

One == <<"1">>

\* the largest VLAN id
VlanMax == <<"4", "0", "9", "4">>

\* vlanConfig.createVlan
createVlan(switchId, vlanId, vlanName) ==
  IF \/ ~Truthy(vlanId)
     \/ IsNaN(ParseInt(vlanId))
     \/ LessThan(ParseInt(vlanId), One)
     \/ GreaterThan(ParseInt(vlanId), VlanMax)
  THEN Throw("Invalid VLAN ID. Must be between 1-4094.")
  ELSE LET sanitizedVlanId == ParseInt(vlanId)
           sanitizedName == SelectSeq(vlanName, NotQuote)
       IN Exec(switchId, FilterBoolean(<<Configure,
                                         <<"v", "l", "a", "n", " ">> \o ToStringJs(sanitizedVlanId),
                                         IF sanitizedName # <<>>
                                         THEN <<"n", "a", "m", "e", " ">> \o sanitizedName ELSE <<>>,
                                         End>>))

\* vlanConfig.deleteVlan
deleteVlan(switchId, vlanId) ==
  IF ~Truthy(vlanId) \/ IsNaN(ParseInt(vlanId))
  THEN Throw("Invalid VLAN ID")
  ELSE Exec(switchId, <<Configure, <<"n", "o", " ", "v", "l", "a", "n", " ">> \o ToStringJs(ParseInt(vlanId)), End>>)

\* vlanConfig.renameVlan
renameVlan(switchId, vlanId, newName) ==
  LET sanitizedVlanId == ParseInt(vlanId)
      sanitizedName == SelectSeq(newName, NotQuote)
  IN Exec(switchId, <<Configure,
                      <<"v", "l", "a", "n", " ">> \o ToStringJs(sanitizedVlanId),
                      <<"n", "a", "m", "e", " ">> \o sanitizedName,
                      End>>)

\* one alternative of the octet pattern 25[0-5]|2[0-4][0-9]|[01]?[0-9][0-9]?
OctetOk(p) ==
  /\ Len(p) \in 1..3
  /\ \A i \in 1..Len(p) : p[i] \in Digits
  /\ Len(p) = 3 =>
       \/ p[1] \in {"0", "1"}
       \/ p[1] = "2" /\ p[2] \in {"0", "1", "2", "3", "4"}
       \/ p[1] = "2" /\ p[2] = "5" /\ p[3] \in {"0", "1", "2", "3", "4", "5"}

\* routingConfig.isValidIpAddress: ipRegex.test(ip)
isValidIpAddress(ip) ==
  LET parts == Split(ip, ".")
  IN Len(parts) = 4 /\ \A i \in 1..4 : OctetOk(parts[i])

\* the widest mask
MaskMax == <<"3", "2">>

\* routingConfig.isValidPrefix
isValidPrefix(prefix) ==
  LET parts == Split(prefix, "/")
  IN /\ Len(parts) = 2
     /\ LET ip == parts[1]
            mask == ParseInt(JsStr(parts[2]))
        IN /\ isValidIpAddress(ip)
           /\ ~(IsNaN(mask) \/ IsNegative(mask) \/ GreaterThan(mask, MaskMax))

\* routingConfig.addStaticRoute; adminDistance undefined takes the default 1
addStaticRoute(switchId, prefix, nextHop, adminDistanceArg) ==
  LET adminDistance == IF adminDistanceArg.t = "undefined" THEN JsNum(FALSE, One, <<>>)
                       ELSE adminDistanceArg
  IN IF switchId = "" THEN Throw("No switch ID provided")
     ELSE IF prefix = <<>> \/ nextHop = <<>> THEN Throw("Prefix and next hop are required")
     ELSE IF ~isValidPrefix(prefix)
     THEN Throw("Invalid prefix format. Expected format: x.x.x.x/y")
     ELSE IF ~isValidIpAddress(nextHop) THEN Throw("Invalid next hop IP address")
     ELSE LET command == Trim(<<"i", "p", " ", "r", "o", "u", "t", "e", " ">> \o prefix \o <<" ">> \o nextHop \o <<" ">> \o
                              (IF ~StrictEquals(adminDistance, One)
                               THEN ToStringJs(adminDistance) ELSE <<>>))
          IN Exec(switchId, <<Configure, command, End>>)

\* routingConfig.deleteStaticRoute
deleteStaticRoute(switchId, prefix, nextHop) ==
  IF switchId = "" \/ prefix = <<>> \/ nextHop = <<>>
  THEN Throw("Switch ID, prefix and next hop are required")
  ELSE Exec(switchId, <<Configure,
                        <<"n", "o", " ", "i", "p", " ", "r", "o", "u", "t", "e", " ">> \o prefix \o <<" ">> \o nextHop,
                        End>>)

\* the largest 4-byte ASN
AsnMax == <<"4", "2", "9", "4", "9", "6", "7", "2", "9", "5">>

\* routingConfig.configureBgp; routerId is a string, empty when not given
configureBgp(switchId, asn, routerId) ==
  IF switchId = "" THEN Throw("No switch ID provided")
  ELSE IF ~Truthy(asn) \/ LessThan(asn, One) \/ GreaterThan(asn, AsnMax)
  THEN Throw("Invalid ASN. Must be between 1 and 4294967295")
  ELSE IF routerId # <<>> /\ ~isValidIpAddress(routerId)
  THEN Throw("Invalid router ID format. Must be a valid IP address")
  ELSE Exec(switchId,
            <<Configure, <<"r", "o", "u", "t", "e", "r", " ", "b", "g", "p", " ">> \o ToStringJs(asn)>> \o
            (IF routerId # <<>> THEN <<<<"r", "o", "u", "t", "e", "r", "-", "i", "d", " ">> \o routerId>> ELSE <<>>) \o
            <<End>>)

\* routingConfig.addBgpNeighbor
addBgpNeighbor(switchId, asn, neighborIp, remoteAsn) ==
  IF switchId = "" \/ ~Truthy(asn) \/ neighborIp = <<>> \/ ~Truthy(remoteAsn)
  THEN Throw("Switch ID, ASN, neighbor IP, and remote ASN are required")
  ELSE IF ~isValidIpAddress(neighborIp) THEN Throw("Invalid neighbor IP address")
  ELSE Exec(switchId, <<Configure,
                        <<"r", "o", "u", "t", "e", "r", " ", "b", "g", "p", " ">> \o ToStringJs(asn),
                        <<"n", "e", "i", "g", "h", "b", "o", "r", " ">> \o neighborIp \o <<" ", "r", "e", "m", "o", "t", "e", "-", "a", "s", " ">> \o ToStringJs(remoteAsn),
                        End>>)

\* routingConfig.removeBgpNeighbor
removeBgpNeighbor(switchId, asn, neighborIp) ==
  IF switchId = "" \/ ~Truthy(asn) \/ neighborIp = <<>>
  THEN Throw("Switch ID, ASN, and neighbor IP are required")
  ELSE Exec(switchId, <<Configure,
                        <<"r", "o", "u", "t", "e", "r", " ", "b", "g", "p", " ">> \o ToStringJs(asn),
                        <<"n", "o", " ", "n", "e", "i", "g", "h", "b", "o", "r", " ">> \o neighborIp,
                        End>>)

\* a faulty variant, for comparison: the commands are passed on as given, without the wrapper
WrapConfigUnwrapped(configCommands) == configCommands

\* cliCommands.executeConfigCommands: ['configure', ...configCommands, 'end']
WrapConfig(configCommands) == <<Configure>> \o configCommands \o <<End>>

\* cliCommands.executeConfigCommands; isArray is Array.isArray(configCommands)
executeConfigCommands(switchId, isArray, configCommands) ==
  IF ~isArray \/ Len(configCommands) = 0
  THEN Throw("Configuration commands must be provided as a non-empty array")
  ELSE Exec(switchId, WrapConfig(configCommands))

----------------------------------------------------------------------------
(* The read functions of routingConfig and vlanConfig *)

\* the index after the longest run of characters of set that starts at i
RECURSIVE SkipRun(_, _, _)
SkipRun(cs, i, set) ==
  IF i <= Len(cs) /\ cs[i] \in set THEN SkipRun(cs, i + 1, set) ELSE i

\* routeRegex at index i:
\* S\s+(prefix)(?:\s+\[(\d+)\/(\d+)\])?\s+(?:via\s+)?(nextHop)
\* gives whether it matches, the index after the match and the groups.  Each
\* piece of the pattern is matched from the index the one before it ended at;
\* when the optional pieces fail the match goes on without them.
MatchRoute(cs, i) ==
  LET At(j, c) == j <= Len(cs) /\ cs[j] = c
      \* k runs of digits separated by dots from index j (\d+\.\d+\.\d+\.\d+
      \* for k = 4): the index after the match, 0 for none
      RECURSIVE MatchDotted(_, _)
      AfterDigits(j, e, k) ==
        IF e = j THEN 0
        ELSE IF k = 1 THEN e
        ELSE IF At(e, ".") THEN MatchDotted(e + 1, k - 1)
        ELSE 0
      MatchDotted(j, k) == AfterDigits(j, SkipRun(cs, j, Digits), k)
      none == [ok |-> FALSE, end |-> 0, prefix |-> <<>>, nextHop |-> <<>>,
               distance |-> <<>>, metric |-> <<>>]
      Match(w1, me, t, distance, metric) ==
        [ok |-> TRUE, end |-> t[2],
         prefix |-> SubSeq(cs, w1, me - 1),
         nextHop |-> SubSeq(cs, t[1], t[2] - 1),
         distance |-> distance, metric |-> metric]
      \* (nextHop) at index s: its start and end, <<0, 0>> for none
      Dotted(s, e) == IF e # 0 THEN <<s, e>> ELSE <<0, 0>>
      \* via\s+ matched up to w3: nextHop there, or else at w2 without via
      ViaHop(w2, w3, e) == IF e # 0 THEN <<w3, e>> ELSE Dotted(w2, MatchDotted(w2, 4))
      Via(w2, w3) ==
        IF w3 > w2 + 3 THEN ViaHop(w2, w3, MatchDotted(w3, 4))
        ELSE Dotted(w2, MatchDotted(w2, 4))
      \* \s+(?:via\s+)?(nextHop) from index a, the white space ending at w2
      Spaced(a, w2) ==
        IF w2 <= a THEN <<0, 0>>
        ELSE IF w2 + 2 <= Len(cs) /\ SubSeq(cs, w2, w2 + 2) = <<"v", "i", "a">>
        THEN Via(w2, SkipRun(cs, w2 + 3, WhiteSpace))
        ELSE Dotted(w2, MatchDotted(w2, 4))
      Hop(a) == Spaced(a, SkipRun(cs, a, WhiteSpace))
      \* the rest of the pattern without the bracket group
      PlainHop(w1, me, t) == IF t[2] = 0 THEN none ELSE Match(w1, me, t, <<>>, <<>>)
      Plain(w1, me) == PlainHop(w1, me, Hop(me))
      \* the bracket group \s+\[(\d+)\/(\d+)\] from index me, piece by piece
      GroupHop(w1, me, g1, de, ke, t) ==
        IF t[2] # 0
        THEN Match(w1, me, t, SubSeq(cs, g1 + 1, de - 1), SubSeq(cs, de + 1, ke - 1))
        ELSE Plain(w1, me)
      Metric(w1, me, g1, de, ke) ==
        IF ke > de + 1 /\ At(ke, "]") THEN GroupHop(w1, me, g1, de, ke, Hop(ke + 1))
        ELSE Plain(w1, me)
      Distance(w1, me, g1, de) ==
        IF de > g1 + 1 /\ At(de, "/")
        THEN Metric(w1, me, g1, de, SkipRun(cs, de + 1, Digits))
        ELSE Plain(w1, me)
      Group(w1, me, g1) ==
        IF g1 > me /\ At(g1, "[") THEN Distance(w1, me, g1, SkipRun(cs, g1 + 1, Digits))
        ELSE Plain(w1, me)
      \* S\s+(\d+\.\d+\.\d+\.\d+\/\d+), piece by piece
      Mask(w1, pe, me) ==
        IF me > pe + 1 THEN Group(w1, me, SkipRun(cs, me, WhiteSpace)) ELSE none
      Prefix(w1, pe) ==
        IF pe # 0 /\ At(pe, "/") THEN Mask(w1, pe, SkipRun(cs, pe + 1, Digits)) ELSE none
      Start(w1) ==
        IF At(i, "S") /\ w1 > i + 1 THEN Prefix(w1, MatchDotted(w1, 4)) ELSE none
  IN Start(SkipRun(cs, i + 1, WhiteSpace))

\* the while loop of parseStaticRoutes: routeRegex.exec from index i on, ^
\* matching at the start of the text and after every line break
RECURSIVE ExecRouteRegex(_, _, _)
ExecRouteRegex(cs, i, routes) ==
  LET Found(m) ==
        IF (i = 1 \/ cs[i - 1] = "\n") /\ m.ok
        THEN ExecRouteRegex(cs, m.end,
               Append(routes,
                 [id |-> <<"s", "t", "a", "t", "i", "c", "-">> \o NatChars(Len(routes) + 1),
                  prefix |-> m.prefix,
                  nextHop |-> m.nextHop,
                  adminDistance |-> IF m.distance # <<>> THEN ParseInt(JsStr(m.distance))
                                    ELSE JsNum(FALSE, One, <<>>),
                  metric |-> IF m.metric # <<>> THEN ParseInt(JsStr(m.metric))
                             ELSE JsNum(FALSE, <<"0">>, <<>>),
                  type |-> "static"]))
        ELSE ExecRouteRegex(cs, i + 1, routes)
  IN IF i > Len(cs) THEN routes ELSE Found(MatchRoute(cs, i))

\* a faulty variant, for comparison: only the first route of the text is read
parseStaticRoutesFirstOnly(output) == SubSeq(ExecRouteRegex(output, 1, <<>>), 1, 1)

\* routingConfig.parseStaticRoutes
parseStaticRoutes(output) == ExecRouteRegex(output, 1, <<>>)

\* routingConfig.getStaticRoutes up to its await
getStaticRoutes(switchId) ==
  IF switchId = "" THEN Throw("No switch ID provided")
  ELSE Exec(switchId, <<<<"s", "h", "o", "w", " ", "i", "p", " ", "r", "o", "u", "t", "e", " ", "s", "t", "a", "t", "i", "c">>>>)

\* routingConfig.getStaticRoutes after its await: result[0].output is parsed
\* when it is there and not empty
getStaticRoutesResult(result) ==
  IF Len(result) > 0 /\ "output" \in DOMAIN result[1] /\ result[1].output # <<>>
  THEN parseStaticRoutes(result[1].output)
  ELSE <<>>

\* vlanConfig.getVlans up to its await
getVlans(switchId) == Exec(switchId, <<<<"s", "h", "o", "w", " ", "v", "l", "a", "n">>>>)

\* vlanConfig.processVlanData over the entries of the vlans object
processVlanData(rawData) ==
  LET \* array.sort((a, b) => a.id - b.id) over records with non-negative ids
      RECURSIVE SortById(_)
      SortById(s) ==
        IF Len(s) <= 1 THEN s
        ELSE LET sorted == SortById(Tail(s))
                 before == SelectSeq(sorted, LAMBDA r : MagLess(r.id.int, Head(s).id.int))
                 after == SelectSeq(sorted, LAMBDA r : ~MagLess(r.id.int, Head(s).id.int))
             IN before \o <<Head(s)>> \o after
  IN SortById([i \in 1..Len(rawData) |->
              [id |-> ParseInt(JsStr(rawData[i].key)),
               name |-> rawData[i].name,
               status |-> "active"]])

\* vlanConfig.getVlans after its await
getVlansResult(results) ==
  IF Len(results) = 0 \/ "vlans" \notin DOMAIN results[1]
  THEN [threw |-> TRUE, error |-> "Invalid VLAN data received", vlans |-> <<>>]
  ELSE [threw |-> FALSE, error |-> "", vlans |-> processVlanData(results[1].vlans)]

----------------------------------------------------------------------------
(* The read functions of routingConfig for BGP *)

\* str.indexOf(lit, from) counted from 1: the first index at or after from
\* where lit occurs in cs, 0 when there is none
RECURSIVE IndexOf(_, _, _)
IndexOf(cs, lit, from) ==
  IF from + Len(lit) - 1 > Len(cs) THEN 0
  ELSE IF SubSeq(cs, from, from + Len(lit) - 1) = lit THEN from
  ELSE IndexOf(cs, lit, from + 1)

\* \d+\.\d+\.\d+\.\d+ at index j of cs: the index after the match, 0 for none
DottedQuad(cs, j) ==
  LET RECURSIVE Quad(_, _)
      AfterDigits(p, e, k) ==
        IF e = p THEN 0
        ELSE IF k = 1 THEN e
        ELSE IF e <= Len(cs) /\ cs[e] = "." THEN Quad(e + 1, k - 1)
        ELSE 0
      Quad(p, k) == AfterDigits(p, SkipRun(cs, p, Digits), k)
  IN Quad(j, 4)

\* the object parseBgpSummary builds and getBgpConfig returns
BgpConfig(enabled, asn, routerId, neighbors) ==
  [enabled |-> enabled, asn |-> asn, routerId |-> routerId, neighbors |-> neighbors]

\* a faulty variant, for comparison: the text 'BGP not active' is not looked for
BgpNotActiveIgnored(output) == FALSE

\* output.includes('BGP not active')
BgpNotActive(output) == IndexOf(output, <<"B", "G", "P", " ", "n", "o", "t", " ", "a", "c", "t", "i", "v", "e">>, 1) # 0

\* routingConfig.parseBgpSummary: 'BGP not active' gives the default object;
\* else the first match of
\* /BGP router identifier (\d+\.\d+\.\d+\.\d+), local AS number (\d+)/ sets
\* enabled, routerId and asn, and every match of
\* /^(\d+\.\d+\.\d+\.\d+)\s+\d+\s+(\d+)\s+/gm adds a neighbor
parseBgpSummary(output) ==
  LET idLit == <<"B", "G", "P", " ", "r", "o", "u", "t", "e", "r", " ", "i", "d", "e", "n", "t", "i", "f", "i", "e", "r", " ">>
      asLit == <<",", " ", "l", "o", "c", "a", "l", " ", "A", "S", " ", "n", "u", "m", "b", "e", "r", " ">>
      \* routerIdRegex from its first possible start at or after index i
      RECURSIVE RouterId(_)
      Asn(at, j, pe, q, e) ==
        IF e > q
        THEN [enabled |-> TRUE, routerId |-> JsStr(SubSeq(output, j, pe - 1)),
              asn |-> ParseInt(JsStr(SubSeq(output, q, e - 1)))]
        ELSE RouterId(at + 1)
      Quad(at, j, pe) ==
        IF pe # 0 /\ SubSeq(output, pe, pe + Len(asLit) - 1) = asLit
        THEN Asn(at, j, pe, pe + Len(asLit), SkipRun(output, pe + Len(asLit), Digits))
        ELSE RouterId(at + 1)
      Literal(at) ==
        IF at = 0 THEN [enabled |-> FALSE, routerId |-> JsNull, asn |-> JsNull]
        ELSE Quad(at, at + Len(idLit), DottedQuad(output, at + Len(idLit)))
      RouterId(i) == Literal(IndexOf(output, idLit, i))
      \* neighborRegex at index i, piece by piece: the index after the match
      \* and the two groups, or end 0
      NoRow == [end |-> 0, ip |-> <<>>, remoteAsn |-> <<>>]
      R6(i, pe, w2, d2, w3) ==
        IF w3 > d2
        THEN [end |-> w3, ip |-> SubSeq(output, i, pe - 1), remoteAsn |-> SubSeq(output, w2, d2 - 1)]
        ELSE NoRow
      R5(i, pe, w2, d2) == IF d2 > w2 THEN R6(i, pe, w2, d2, SkipRun(output, d2, WhiteSpace)) ELSE NoRow
      R4(i, pe, d1, w2) == IF w2 > d1 THEN R5(i, pe, w2, SkipRun(output, w2, Digits)) ELSE NoRow
      R3(i, pe, w1, d1) == IF d1 > w1 THEN R4(i, pe, d1, SkipRun(output, d1, WhiteSpace)) ELSE NoRow
      R2(i, pe, w1) == IF w1 > pe THEN R3(i, pe, w1, SkipRun(output, w1, Digits)) ELSE NoRow
      R1(i, pe) == IF pe # 0 THEN R2(i, pe, SkipRun(output, pe, WhiteSpace)) ELSE NoRow
      \* the while loop over neighborRegex.exec from index i on
      RECURSIVE Rows(_, _)
      Row(i, acc, m) ==
        IF m.end # 0
        THEN Rows(m.end, Append(acc, [ip |-> m.ip, remoteAsn |-> ParseInt(JsStr(m.remoteAsn))]))
        ELSE Rows(i + 1, acc)
      Rows(i, acc) ==
        IF i > Len(output) THEN acc
        ELSE IF i = 1 \/ output[i - 1] = "\n" THEN Row(i, acc, R1(i, DottedQuad(output, i)))
        ELSE Rows(i + 1, acc)
      Built(id) == BgpConfig(id.enabled, id.asn, id.routerId, Rows(1, <<>>))
  IN IF BgpNotActive(output)
     THEN BgpConfig(FALSE, JsNull, JsNull, <<>>)
     ELSE Built(RouterId(1))

\* routingConfig.parseBgpNeighbors: one record for each section after a
\* 'BGP neighbor is ' that starts with a dotted address; each field is the
\* group of the first match of its pattern in the section
parseBgpNeighbors(output) ==
  LET lit == <<"B", "G", "P", " ", "n", "e", "i", "g", "h", "b", "o", "r", " ", "i", "s", " ">>
      Word == Letters \cup Digits \cup {"_"}
      \* the group of the first match of /<pre>(<set>+)/ in cs, <<>> for no match
      RECURSIVE Group(_, _, _, _)
      Run(cs, pre, set, at, e) ==
        IF e > at + Len(pre) THEN SubSeq(cs, at + Len(pre), e - 1)
        ELSE Group(cs, pre, set, at + 1)
      Found(cs, pre, set, at) ==
        IF at = 0 THEN <<>> ELSE Run(cs, pre, set, at, SkipRun(cs, at + Len(pre), set))
      Group(cs, pre, set, i) == Found(cs, pre, set, IndexOf(cs, pre, i))
      \* the group of the first match of /(\d+) accepted prefixes/ in cs
      RECURSIVE Accepted(_, _)
      Before(cs, at, b) ==
        IF b < at THEN SubSeq(cs, b, at - 1) ELSE Accepted(cs, at + 1)
      Digit(cs, at) ==
        IF at = 0 THEN <<>>
        ELSE Before(cs, at, CHOOSE b \in 1..at :
                              /\ \A k \in b..(at - 1) : cs[k] \in Digits
                              /\ \A c \in 1..(b - 1) : \E k \in c..(at - 1) : cs[k] \notin Digits)
      Accepted(cs, i) == Digit(cs, IndexOf(cs, <<" ", "a", "c", "c", "e", "p", "t", "e", "d", " ", "p", "r", "e", "f", "i", "x", "e", "s">>, i))
      Number(ds, default) == IF ds = <<>> THEN default ELSE ParseInt(JsStr(ds))
      Text(cs, default) == IF cs = <<>> THEN default ELSE cs
      Neighbor(section, e) ==
        [ip |-> SubSeq(section, 1, e - 1),
         remoteAsn |-> Number(Group(section, <<"R", "e", "m", "o", "t", "e", " ", "A", "S", " ">>, Digits, 1), JsNull),
         state |-> Text(Group(section, <<"B", "G", "P", " ", "s", "t", "a", "t", "e", " ", "=", " ">>, Word, 1), <<"I", "d", "l", "e">>),
         uptime |-> Text(Group(section, <<"U", "p", "t", "i", "m", "e", ":", " ">>, Digits \cup {":"}, 1), <<"n", "e", "v", "e", "r">>),
         prefixesReceived |-> Number(Accepted(section, 1), JsNum(FALSE, <<"0">>, <<>>)),
         prefixesSent |-> JsNum(FALSE, <<"0">>, <<>>)]
      \* output.split(/BGP neighbor is /g).slice(1), section by section
      RECURSIVE Sections(_, _)
      Section(section, acc, rest, e) ==
        Sections(rest, IF e = 0 THEN acc ELSE Append(acc, Neighbor(section, e)))
      Cut(cs, acc, nxt) ==
        IF nxt = 0 THEN Section(cs, acc, <<>>, DottedQuad(cs, 1))
        ELSE Section(SubSeq(cs, 1, nxt - 1), acc, SubSeq(cs, nxt, Len(cs)),
                     DottedQuad(SubSeq(cs, 1, nxt - 1), 1))
      Sections(cs, acc) ==
        IF cs = <<>> THEN acc
        ELSE Cut(SubSeq(cs, Len(lit) + 1, Len(cs)), acc,
                 IndexOf(SubSeq(cs, Len(lit) + 1, Len(cs)), lit, 1))
      Start(at) == IF at = 0 THEN <<>> ELSE Sections(SubSeq(output, at, Len(output)), <<>>)
  IN Start(IndexOf(output, lit, 1))

\* the getBgpConfig call: where it is ("idle" when none is in progress,
\* "summary" or "neighbors" for the request it awaits), the summary text it
\* received, the bgpConfig it holds and the requests it has issued
BgpCall(phase, summary, config, calls) ==
  [phase |-> phase, summary |-> summary, config |-> config, calls |-> calls]

----------------------------------------------------------------------------

(* The read functions of topologyService *)

\* String.prototype.toLowerCase over the letters of the model
ToLowerCase(cs) ==
  LET upper == <<"A", "B", "C", "D", "E", "F", "G", "H", "I", "J", "K", "L", "M", "N", "O", "P", "Q", "R", "S", "T", "U", "V", "W", "X", "Y", "Z">>
      lower == <<"a", "b", "c", "d", "e", "f", "g", "h", "i", "j", "k", "l", "m", "n", "o", "p", "q", "r", "s", "t", "u", "v", "w", "x", "y", "z">>
      Low(c) == IF \E i \in 1..26 : upper[i] = c
                THEN lower[CHOOSE i \in 1..26 : upper[i] = c] ELSE c
  IN [i \in 1..Len(cs) |-> Low(cs[i])]

\* topologyService.parseLldpNeighbors: one record for each section after a
\* 'Port : ' that starts with a character other than white space; each field
\* is the group of the first match of its pattern in the section, or its
\* default.  remotePortDescription and linkType, which nothing reads, are
\* left out.
parseLldpNeighbors(output) ==
  LET sep == <<"P", "o", "r", "t", " ", ":", " ">>
      space == WhiteSpace \cup {"\r"}
      unknown == <<"U", "n", "k", "n", "o", "w", "n">>
      \* the first index at or after i of a character in stop, Len(cs) + 1 for none
      RECURSIVE Until(_, _, _)
      Until(cs, i, stop) ==
        IF i <= Len(cs) /\ cs[i] \notin stop THEN Until(cs, i + 1, stop) ELSE i
      \* the group of the first match of /<lit>([^<stop>]+)<close>/ in cs
      RECURSIVE Group(_, _, _, _, _, _)
      Run(cs, lit, stop, close, default, at, e) ==
        IF /\ e > at + Len(lit)
           /\ e + Len(close) - 1 <= Len(cs)
           /\ SubSeq(cs, e, e + Len(close) - 1) = close
        THEN SubSeq(cs, at + Len(lit), e - 1)
        ELSE Group(cs, lit, stop, close, default, at + 1)
      Found(cs, lit, stop, close, default, at) ==
        IF at = 0 THEN default
        ELSE Run(cs, lit, stop, close, default, at, Until(cs, at + Len(lit), stop))
      Group(cs, lit, stop, close, default, i) ==
        Found(cs, lit, stop, close, default, IndexOf(cs, lit, i))
      Neighbor(section, e) ==
        [localPort |-> SubSeq(section, 1, e - 1),
         remoteChassisId |-> Group(section, <<"C", "h", "a", "s", "s", "i", "s", " ", "i", "d", " ", ":", " ">>, space, <<>>, unknown, 1),
         remotePort |-> Trim(Group(section, <<"P", "o", "r", "t", " ", "i", "d", " ", ":", " ">>, {"\r", "\n"}, <<>>, unknown, 1)),
         remoteDeviceName |-> Group(section, <<"S", "y", "s", "t", "e", "m", " ", "N", "a", "m", "e", " ", ":", " ", "\"">>, {"\""}, <<"\"">>, unknown, 1),
         remoteDescription |-> Group(section, <<"S", "y", "s", "t", "e", "m", " ", "D", "e", "s", "c", "r", "i", "p", "t", "i", "o", "n", " ", ":", " ", "\"">>, {"\""}, <<"\"">>, <<>>, 1)]
      \* output.split('Port : ').slice(1), section by section
      RECURSIVE Sections(_, _)
      Section(section, acc, rest, e) ==
        Sections(rest, IF e = 1 THEN acc ELSE Append(acc, Neighbor(section, e)))
      Cut(cs, acc, nxt) ==
        IF nxt = 0 THEN Section(cs, acc, <<>>, Until(cs, 1, space))
        ELSE Section(SubSeq(cs, 1, nxt - 1), acc, SubSeq(cs, nxt, Len(cs)),
                     Until(SubSeq(cs, 1, nxt - 1), 1, space))
      Sections(cs, acc) ==
        IF cs = <<>> THEN acc
        ELSE Cut(SubSeq(cs, Len(sep) + 1, Len(cs)), acc,
                 IndexOf(SubSeq(cs, Len(sep) + 1, Len(cs)), sep, 1))
      Start(at) == IF at = 0 THEN <<>> ELSE Sections(SubSeq(output, at, Len(output)), <<>>)
  IN Start(IndexOf(output, sep, 1))

\* topologyService.parseInterfaceStatus: the object that maps an interface
\* name to its entry, as a function from names to the entry's status; the
\* other fields of an entry (vlan, duplex, speed, type), which the topology
\* does not read, are left out.  Lines up to the header line are skipped; a
\* later line for a name replaces an earlier one.
parseInterfaceStatus(output) ==
  LET Includes(line, lit) == IndexOf(line, lit, 1) # 0
      Header(line) ==
        /\ Includes(line, <<"P", "o", "r", "t">>)
        /\ Includes(line, <<"S", "t", "a", "t", "u", "s">>)
        /\ Includes(line, <<"V", "l", "a", "n">>)
      \* line.trim().split(/\s+/)
      RECURSIVE Parts(_)
      Word(cs, w) == <<w>> \o Parts(SubSeq(cs, Len(w) + 1, Len(cs)))
      Parts(cs) ==
        IF StripLeft(cs, WhiteSpace) = <<>> THEN <<>>
        ELSE Word(StripLeft(cs, WhiteSpace),
                  TakeWhile(StripLeft(cs, WhiteSpace), {c \in {cs[i] : i \in 1..Len(cs)} : c \notin WhiteSpace}))
      Entry3(interfaces, parts) ==
        IF Len(parts) >= 3
        THEN [n \in DOMAIN interfaces \cup {parts[1]} |->
                IF n = parts[1] THEN [status |-> ToLowerCase(parts[2])] ELSE interfaces[n]]
        ELSE interfaces
      RECURSIVE Lines(_, _, _, _)
      Lines(lines, i, dataStarted, interfaces) ==
        IF i > Len(lines) THEN interfaces
        ELSE IF ~dataStarted THEN Lines(lines, i + 1, Header(lines[i]), interfaces)
        ELSE IF Trim(lines[i]) = <<>> THEN Lines(lines, i + 1, TRUE, interfaces)
        ELSE Lines(lines, i + 1, TRUE, Entry3(interfaces, Parts(Trim(lines[i]))))
  IN Lines(Split(Trim(output), "\n"), 1, FALSE, <<>>)

\* a switch id as the characters a template literal interpolates
IdChars(id) ==
  CASE id = "SN-A" -> <<"S", "N", "-", "A">>
    [] id = "rnd1" -> <<"r", "n", "d", "1">>
    [] id = "rnd2" -> <<"r", "n", "d", "2">>
    [] OTHER -> <<>>

\* a faulty variant, for comparison: the spacing divides by the number of
\* nodes of the tier
positionNodesTight(nodes) ==
  LET Tier(i) == nodes[i].type = "switch"
      Size(i) == Cardinality({j \in 1..Len(nodes) : Tier(j) = Tier(i)})
      Rank(i) == Cardinality({j \in 1..i : Tier(j) = Tier(i)})
  IN [i \in 1..Len(nodes) |->
        [nodes[i] EXCEPT !.x = [mul |-> Rank(i), div |-> Size(i)],
                         !.y = IF Tier(i) THEN 25 ELSE 75]]

\* topologyService.positionNodes, as the array after the call.  A coordinate
\* x is held as the pair of the integers of (100 / div) * mul, the expression
\* that computes it; y is an integer.  A single node is centred; otherwise
\* the nodes of type 'switch' and the others are each spread over a row, in
\* array order.
positionNodes(nodes) ==
  LET Tier(i) == nodes[i].type = "switch"
      Size(i) == Cardinality({j \in 1..Len(nodes) : Tier(j) = Tier(i)})
      Rank(i) == Cardinality({j \in 1..i : Tier(j) = Tier(i)})
  IN IF Len(nodes) = 1
     THEN <<[nodes[1] EXCEPT !.x = [mul |-> 50, div |-> 100], !.y = 50]>>
     ELSE [i \in 1..Len(nodes) |->
             [nodes[i] EXCEPT !.x = [mul |-> Rank(i), div |-> Size(i) + 1],
                              !.y = IF Tier(i) THEN 25 ELSE 75]]

----------------------------------------------------------------------------

(* Calls of the domain services *)

\* the arguments of a service call: the strings a and b, the boolean flag,
\* the values v and w, the array list
Args(switchId, a, b, flag, v, w, list) ==
  [switchId |-> switchId, a |-> a, b |-> b, flag |-> flag, v |-> v, w |-> w,
   list |-> list]

WriteOps ==
  {"setInterfaceDescription", "setInterfaceEnabled", "setInterfaceMode",
   "createVlan", "deleteVlan", "renameVlan",
   "addStaticRoute", "deleteStaticRoute",
   "configureBgp", "addBgpNeighbor", "removeBgpNeighbor",
   "executeConfigCommands"}

\* the exported function fn applied to its arguments
Service(fn, x) ==
  CASE fn = "setInterfaceDescription" -> setInterfaceDescription(x.switchId, x.a, x.b)
    [] fn = "setInterfaceEnabled" -> setInterfaceEnabled(x.switchId, x.a, x.flag)
    [] fn = "setInterfaceMode" -> setInterfaceMode(x.switchId, x.a, x.b, x.v)
    [] fn = "createVlan" -> createVlan(x.switchId, x.v, x.a)
    [] fn = "deleteVlan" -> deleteVlan(x.switchId, x.v)
    [] fn = "renameVlan" -> renameVlan(x.switchId, x.v, x.a)
    [] fn = "addStaticRoute" -> addStaticRoute(x.switchId, x.a, x.b, x.v)
    [] fn = "deleteStaticRoute" -> deleteStaticRoute(x.switchId, x.a, x.b)
    [] fn = "configureBgp" -> configureBgp(x.switchId, x.v, x.a)
    [] fn = "addBgpNeighbor" -> addBgpNeighbor(x.switchId, x.v, x.a, x.w)
    [] fn = "removeBgpNeighbor" -> removeBgpNeighbor(x.switchId, x.v, x.a)
    [] fn = "executeConfigCommands" -> executeConfigCommands(x.switchId, x.flag, x.list)
    [] fn = "getStaticRoutes" -> getStaticRoutes(x.switchId)
    [] fn = "getVlans" -> getVlans(x.switchId)

\* the id of the device that reports a serial number
StoredId == "SN-A"

\* the calls made in the services' specification: for each function, sample
\* arguments on both sides of each of its checks (Sextillion is 1e21, the
\* first number whose String() is in exponent form)
ServiceInputs(fn) ==
  LET A(a, b, flag, v, w, list) == Args(StoredId, a, b, flag, v, w, list)
      Num(ds) == JsNum(FALSE, ds, <<>>)
      Sextillion == Num(<<"1">> \o [i \in 1..21 |-> "0"])
      InterfaceNames == { <<"E", "t", "h", "e", "r", "n", "e", "t", "1", "/", "1">>, <<"E", "t", "1", ";", "n", "o", " ", "x">> }
      Descriptions == { <<"u", "p", "l", "i", "n", "k">>, <<"a", "\"", "b", "'", "c">>, <<>> }
      VlanNames == { <<"p", "r", "o", "d">>, <<"i", "t", "'", "s">>, <<"\"">>, <<>> }
      VlanIds ==
        { JsUndefined, JsNull, JsNaN,
          Num(<<"0">>), Num(One), Num(<<"1", "0">>), Num(VlanMax), Num(<<"4", "0", "9", "5">>),
          JsNum(TRUE, <<"5">>, <<>>), JsNum(FALSE, VlanMax, <<"5">>), JsNum(FALSE, One, <<"5">>),
          Sextillion,
          JsStr(<<"1", "0">>), JsStr(<<"1", "2", "a", "b", "c">>), JsStr(<<"a", "b", "c">>), JsStr(<<>>), JsStr(<<" ", "7">>),
          JsStr(<<"0", "x", "1", "F">>), JsStr(<<"4", "0", "9", "5">>) }
      Modes == { <<"a", "c", "c", "e", "s", "s">>, <<"t", "r", "u", "n", "k">>, <<"r", "o", "u", "t", "e", "d">>, <<"a", "u", "t", "o">> }
      AccessVlans == { JsNull, Num(<<"0">>), Num(<<"1", "0">>), Num(<<"5", "0", "0", "0">>), JsStr(<<"1", "0">>) }
      GoodPrefix == <<"1", "0", ".", "0", ".", "0", ".", "0", "/", "2", "4">>
      Prefixes ==
        { GoodPrefix, <<"1", "0", ".", "0", ".", "0", ".", "0", "/", "3", "3">>, <<"1", "0", ".", "0", ".", "0", ".", "0", "/", "2", "4", "a", "b", "c">>, <<"1", "0", ".", "0", ".", "0", ".", "0", "/", "-", "1">>, <<"1", "0", ".", "0", ".", "0", ".", "0">>,
          <<"3", "0", "0", ".", "0", ".", "0", ".", "0", "/", "8">>, <<"0", ".", "0", ".", "0", ".", "0", "/", "0">>, <<>> }
      GoodHop == <<"1", "0", ".", "0", ".", "0", ".", "1">>
      NextHops == { GoodHop, <<"1", "0", ".", "0", ".", "0", ".", "2", "5", "6">>, <<"1", "0", ".", "0", ".", "0">>, <<"1", "0", ".", "0", ".", "0", ".", "1", " ", "5">>, <<>> }
      Distances ==
        { JsUndefined, JsNull, JsNaN, Num(<<"0">>), Num(One), Num(<<"1", "0">>), Num(<<"2", "5", "5">>),
          Num(<<"2", "5", "6">>), JsNum(TRUE, One, <<>>), JsStr(<<"1">>) }
      Asns ==
        { JsUndefined, JsNaN, Num(<<"0">>), Num(One), Num(<<"6", "5", "0", "0", "0">>), Num(AsnMax),
          Num(<<"4", "2", "9", "4", "9", "6", "7", "2", "9", "6">>), JsNum(TRUE, One, <<>>), JsNum(FALSE, <<"0">>, <<"5">>),
          JsStr(<<"6", "5", "0", "0", "0">>), JsStr(<<"a", "b", "c">>), JsStr(<<>>) }
      RouterIds == { <<>>, <<"1", ".", "1", ".", "1", ".", "1">>, <<"1", ".", "1", ".", "1">>, <<"2", "5", "6", ".", "1", ".", "1", ".", "1">> }
      ConfigLists == { <<>>, <<<<"v", "l", "a", "n", " ", "1", "0">>>>, <<<<"v", "l", "a", "n", " ", "1", "0">>, <<"n", "a", "m", "e", " ", "p", "r", "o", "d">>>>, <<<<>>>> }
  IN CASE fn = "setInterfaceDescription" ->
            { A(n, d, FALSE, JsNull, JsNull, <<>>) : n \in InterfaceNames, d \in Descriptions }
       [] fn = "setInterfaceEnabled" ->
            { A(n, <<>>, e, JsNull, JsNull, <<>>) : n \in InterfaceNames, e \in BOOLEAN }
       [] fn = "setInterfaceMode" ->
            { A(<<"E", "t", "h", "e", "r", "n", "e", "t", "1", "/", "1">>, m, FALSE, v, JsNull, <<>>) : m \in Modes, v \in AccessVlans }
       [] fn = "createVlan" ->
            { A(n, <<>>, FALSE, v, JsNull, <<>>) : n \in VlanNames, v \in VlanIds }
            \cup { Args("rnd1", <<"p", "r", "o", "d">>, <<>>, FALSE, Num(<<"1", "0">>), JsNull, <<>>) }
       [] fn = "deleteVlan" ->
            { A(<<>>, <<>>, FALSE, v, JsNull, <<>>) : v \in VlanIds }
       [] fn = "renameVlan" ->
            { A(n, <<>>, FALSE, v, JsNull, <<>>) :
                n \in VlanNames, v \in {Num(<<"1", "0">>), Num(<<"4", "0", "9", "5">>), JsUndefined, JsStr(<<"a", "b", "c">>)} }
       [] fn = "addStaticRoute" ->
            { A(p, GoodHop, FALSE, JsUndefined, JsNull, <<>>) : p \in Prefixes }
            \cup { A(GoodPrefix, h, FALSE, JsUndefined, JsNull, <<>>) : h \in NextHops }
            \cup { A(GoodPrefix, GoodHop, FALSE, d, JsNull, <<>>) : d \in Distances }
            \cup { Args("", GoodPrefix, GoodHop, FALSE, JsUndefined, JsNull, <<>>) }
       [] fn = "deleteStaticRoute" ->
            { A(p, h, FALSE, JsNull, JsNull, <<>>) :
                p \in {GoodPrefix, <<"1", "0", ".", "0", ".", "0", ".", "0", "/", "3", "3">>, <<>>}, h \in {GoodHop, <<"1", "0", ".", "0", ".", "0">>, <<>>} }
            \cup { Args("", GoodPrefix, GoodHop, FALSE, JsNull, JsNull, <<>>) }
       [] fn = "configureBgp" ->
            { A(<<>>, <<>>, FALSE, n, JsNull, <<>>) : n \in Asns }
            \cup { A(r, <<>>, FALSE, Num(<<"6", "5", "0", "0", "0">>), JsNull, <<>>) : r \in RouterIds }
            \cup { Args("", <<>>, <<>>, FALSE, Num(<<"6", "5", "0", "0", "0">>), JsNull, <<>>) }
       [] fn = "addBgpNeighbor" ->
            { A(GoodHop, <<>>, FALSE, n, Num(<<"6", "5", "0", "0", "1">>), <<>>) : n \in Asns }
            \cup { A(GoodHop, <<>>, FALSE, Num(<<"6", "5", "0", "0", "0">>), n, <<>>) : n \in Asns }
            \cup { A(h, <<>>, FALSE, Num(<<"6", "5", "0", "0", "0">>), Num(<<"6", "5", "0", "0", "1">>), <<>>) : h \in NextHops }
       [] fn = "removeBgpNeighbor" ->
            { A(h, <<>>, FALSE, n, JsNull, <<>>) :
                h \in NextHops, n \in {Num(<<"6", "5", "0", "0", "0">>), Num(<<"0">>), JsUndefined} }
       [] fn = "executeConfigCommands" ->
            { A(<<>>, <<>>, TRUE, JsNull, JsNull, l) : l \in ConfigLists }
            \cup { A(<<>>, <<>>, FALSE, JsNull, JsNull, <<>>) }

\* what the last service call did
ServiceRecord(fn, x, o) ==
  [fn |-> fn, args |-> x, threw |-> o.threw, error |-> o.error, calls |-> o.calls]

NoService == ServiceRecord("", Args("", <<>>, <<>>, FALSE, JsNull, JsNull, <<>>),
                           Outcome(FALSE, "", <<>>))

----------------------------------------------------------------------------
(* The device behind the transport, as far as the round trips through the  *)
(* services need it: it runs a command list in order, keeps what the       *)
(* commands before a rejected one did, and answers the show commands in    *)
(* the form the read functions consume.                                    *)

\* cs is the decimal text of an integer in [0, max]
DecimalUpTo(cs, max) ==
  /\ cs # <<>>
  /\ \A i \in 1..Len(cs) : cs[i] \in Digits
  /\ ~MagLess(max, Canonical(cs))

\* four octets 0..255 separated by dots and nothing else
WellFormedIp(cs) ==
  LET parts == Split(cs, ".")
  IN Len(parts) = 4 /\ \A i \in 1..4 : Len(parts[i]) <= 3 /\ DecimalUpTo(parts[i], <<"2", "5", "5">>)

\* a well-formed address, '/', a mask 0..32 and nothing else
WellFormedCidr(cs) ==
  LET parts == Split(cs, "/")
  IN Len(parts) = 2 /\ WellFormedIp(parts[1]) /\ DecimalUpTo(parts[2], MaskMax)

\* the device: its static routes, its VLANs as the entries of the vlans
\* object (integer keys, so in ascending order), and (history) the last
\* write call of a service whose commands it ran to the end
Device(routes, vlans, wrote) == [routes |-> routes, vlans |-> vlans, wrote |-> wrote]

\* one command on the device, cur being the VLAN the session is configuring:
\* whether it is accepted, the device after it and the element of the result
\* array
DeviceStep(d, cur, cmd) ==
  LET tokens == Split(cmd, " ")
      starts(pre) == Len(cmd) >= Len(pre) /\ SubSeq(cmd, 1, Len(pre)) = pre
      rest(pre) == SubSeq(cmd, Len(pre) + 1, Len(cmd))
      \* the text of 'show ip route static': a line per route, as
      \* S <prefix> [<distance>/0] via <next hop>
      RECURSIVE RouteText(_)
      RouteText(routes) ==
        IF routes = <<>> THEN <<>>
        ELSE <<"S", " ">> \o Head(routes).prefix \o <<" ", "[">> \o Head(routes).distance
             \o <<"/", "0", "]", " ", "v", "i", "a", " ">> \o Head(routes).nextHop \o <<"\n">>
             \o RouteText(Tail(routes))
      done(d2, cur2, result) == [ok |-> TRUE, dev |-> d2, cur |-> cur2, result |-> result]
      rejected == [ok |-> FALSE, dev |-> d, cur |-> cur, result |-> <<>>]
      id(cs) == cs # <<>> /\ DecimalUpTo(cs, VlanMax) /\ Canonical(cs) # <<"0">>
      others(key) == SelectSeq(d.vlans, LAMBDA e : e.key # key)
      below(key) == SelectSeq(d.vlans, LAMBDA e : MagLess(e.key, key))
      above(key) == SelectSeq(d.vlans, LAMBDA e : MagLess(key, e.key))
      named(key) == \E i \in 1..Len(d.vlans) : d.vlans[i].key = key
  IN CASE cmd \in {Configure, End} -> done(d, <<>>, [ran |-> cmd])
       [] cmd = <<"s", "h", "o", "w", " ", "i", "p", " ", "r", "o", "u", "t", "e", " ", "s", "t", "a", "t", "i", "c">> -> done(d, cur, [output |-> RouteText(d.routes)])
       [] cmd = <<"s", "h", "o", "w", " ", "v", "l", "a", "n">> -> done(d, cur, [vlans |-> d.vlans])
       [] starts(<<"i", "p", " ", "r", "o", "u", "t", "e", " ">>) ->
            LET distance == IF Len(tokens) = 5 THEN tokens[5] ELSE One
                route == [prefix |-> tokens[3], nextHop |-> tokens[4], distance |-> distance]
                same(r) == r.prefix = route.prefix /\ r.nextHop = route.nextHop
            IN IF /\ Len(tokens) \in {4, 5}
                  /\ WellFormedCidr(tokens[3])
                  /\ WellFormedIp(tokens[4])
                  /\ DecimalUpTo(distance, <<"2", "5", "5">>) /\ Canonical(distance) # <<"0">>
               THEN done([d EXCEPT !.routes =
                            IF \E i \in 1..Len(d.routes) : same(d.routes[i])
                            THEN [i \in 1..Len(d.routes) |->
                                    IF same(d.routes[i]) THEN route ELSE d.routes[i]]
                            ELSE Append(d.routes, route)],
                         cur, [ran |-> cmd])
               ELSE rejected
       [] starts(<<"v", "l", "a", "n", " ">>) ->
            LET key == Canonical(rest(<<"v", "l", "a", "n", " ">>))
            IN IF id(rest(<<"v", "l", "a", "n", " ">>))
               THEN done([d EXCEPT !.vlans =
                            IF named(key) THEN d.vlans
                            ELSE below(key) \o <<[key |-> key, name |-> <<>>]>> \o above(key)],
                         key, [ran |-> cmd])
               ELSE rejected
       [] starts(<<"n", "a", "m", "e", " ">>) ->
            IF cur # <<>> /\ rest(<<"n", "a", "m", "e", " ">>) # <<>>
            THEN done([d EXCEPT !.vlans =
                         [i \in 1..Len(d.vlans) |->
                            IF d.vlans[i].key = cur
                            THEN [key |-> cur, name |-> rest(<<"n", "a", "m", "e", " ">>)]
                            ELSE d.vlans[i]]],
                      cur, [ran |-> cmd])
            ELSE rejected
       [] starts(<<"n", "o", " ", "v", "l", "a", "n", " ">>) ->
            IF id(rest(<<"n", "o", " ", "v", "l", "a", "n", " ">>))
            THEN done([d EXCEPT !.vlans = others(Canonical(rest(<<"n", "o", " ", "v", "l", "a", "n", " ">>)))],
                      <<>>, [ran |-> cmd])
            ELSE rejected
       [] OTHER -> rejected

----------------------------------------------------------------------------
(* connectionManager.js: the registry *)

\* the ids a caller may pass: serial numbers and the random fallbacks
SwitchIds == ({SerialOf(ip) : ip \in Addresses} \ {""}) \cup RandomIds

\* the command lists executeCommands is called with in the registry's own
\* specification (the domain services build theirs below)
ExecInputs == { <<<<"s", "h", "o", "w", " ", "v", "e", "r", "s", "i", "o", "n">>>>, <<Configure, <<"v", "l", "a", "n", " ", "1", "0">>, End>> }

Entry(key, connection, switchData, credentials) ==
  [key |-> key, connection |-> connection, switchData |-> switchData,
   credentials |-> credentials]

NoEntry == Entry("", NoHandle, NoSummary, NoHandle)

\* Map.prototype.has / get / set / delete over the insertion-ordered entries
MapHas(m, k) == \E i \in 1..Len(m) : m[i].key = k

MapGet(m, k) ==
  IF MapHas(m, k) THEN m[CHOOSE i \in 1..Len(m) : m[i].key = k] ELSE NoEntry

MapSet(m, k, e) ==
  IF MapHas(m, k)
  THEN [i \in 1..Len(m) |-> IF m[i].key = k THEN e ELSE m[i]]
  ELSE Append(m, e)

MapDelete(m, k) == SelectSeq(m, LAMBDA e : e.key # k)

MapKeys(m) == {m[i].key : i \in 1..Len(m)}

getConnection(m, switchId) == MapGet(m, switchId)

getAllSwitchData(m) == [i \in 1..Len(m) |-> m[i].switchData]

\* a call suspended at an await, with what its closure holds
Task(kind, ip, cred, id, conn, owner, cmds) ==
  [kind |-> kind, ip |-> ip, cred |-> cred, id |-> id, conn |-> conn,
   owner |-> owner, cmds |-> cmds]

\* what a call gave its caller
Ret(success, switchData, results, error) ==
  [success |-> success, switchData |-> switchData, results |-> results, error |-> error,
   all |-> <<>>]

NoRet == Ret(FALSE, NoSummary, <<>>, NoErr)

\* what refreshAllConnections gave its caller
RetAll(success, all, error) == [Ret(success, NoSummary, <<>>, error) EXCEPT !.all = all]

\* op: the exported function the step belongs to; outcome: "pending" (the call
\* went on to an await), "return" or "throw"; sent: requests the step issued;
\* resp: the device's answer the step consumed
Event(op, arg, outcome, ret, sent, resp) ==
  [op |-> op, arg |-> arg, outcome |-> outcome, ret |-> ret, sent |-> sent, resp |-> resp]

\* the pending refreshAllConnections call: the ids it started a refresh for
\* and those whose refresh has fulfilled
RefreshAll(status, started, done) == [status |-> status, started |-> started, done |-> done]

RaIdle == RefreshAll("idle", {}, {})

Init ==
  /\ connections = <<>>
  /\ tasks = {}
  /\ ra = RaIdle
  /\ ev = Event("init", "", "return", NoRet, 0, NoResponse)
  /\ snap = <<>>
  /\ cli = [configMode |-> FALSE, configBuffer |-> <<>>, last |-> [line |-> <<>>, mode |-> FALSE, buffer |-> <<>>, called |-> <<>>]]
  /\ topo = [phase |-> "idle", switches |-> <<>>, at |-> 0, nodes |-> <<>>, links |-> <<>>, processed |-> {}, neighbors |-> <<>>, log |-> <<>>, got |-> <<>>]
  /\ bgp = BgpCall("idle", <<>>, BgpConfig(FALSE, JsNull, JsNull, <<>>), 0)
  /\ svc = NoService
  /\ dev = Device(<<>>, <<>>, [fn |-> "", args |-> NoService.args])

CanSuspend(n) == Cardinality(tasks) + n <= MaxInFlight

\* createConnection up to its first await: connectToSwitch issues the probe
CreateConnectionCall(ip, cred) ==
  LET t == Task("connect", ip, cred, "", [ip |-> ip, cred |-> cred], "create", <<>>)
  IN /\ CanSuspend(1)
     /\ t \notin tasks
     /\ tasks' = tasks \cup {t}
     /\ ev' = Event("createConnection", ip, "pending", NoRet, 1, NoResponse)
     /\ UNCHANGED <<connections, ra>>

\* the catch block of createConnection
CreateFailure(error) ==
  Ret(FALSE, NoSummary, <<>>,
      Err(IF error.message # "" THEN error.message ELSE "Failed to connect to switch", <<>>))

\* the probe is answered: connectToSwitch throws or returns the connection
\* object, and createConnection goes on to connection.getSwitchInfo()
ConnectResponse(t, resp) ==
  /\ t \in tasks
  /\ t.kind = "connect"
  /\ IF TransportOk(resp)
     THEN /\ tasks' = (tasks \ {t}) \cup {[t EXCEPT !.kind = "info"]}
          /\ ev' = Event("createConnection", t.ip, "pending", NoRet, 1, resp)
     ELSE /\ tasks' = tasks \ {t}
          /\ ev' = Event("createConnection", t.ip, "return",
                         CreateFailure(TransportError(resp)), 0, resp)
  /\ UNCHANGED <<connections, ra>>

\* a faulty variant, for comparison: the entry is stored before the parse result is looked at
CreateStoreUnchecked(m, t, parsed) ==
  MapSet(m, parsed.data.id, Entry(parsed.data.id, t.conn, parsed.data, t.conn))

\* what createConnection does with the parsed info: store, or not
CreateStore(m, t, parsed) ==
  IF parsed.ok
  THEN MapSet(m, parsed.data.id, Entry(parsed.data.id, t.conn, parsed.data, t.conn))
  ELSE m

\* the info request is answered: parse, store, return
CreateInfoResponse(t, resp, rnd) ==
  /\ t \in tasks
  /\ t.kind = "info"
  /\ tasks' = tasks \ {t}
  /\ IF TransportOk(resp)
     THEN LET parsed == processSwitchData(resp.raw, rnd)
          IN /\ connections' = CreateStore(connections, t, parsed)
             /\ ev' = Event("createConnection", t.ip, "return",
                            IF parsed.ok THEN Ret(TRUE, parsed.data, <<>>, NoErr)
                                         ELSE CreateFailure(parsed.error),
                            0, resp)
     ELSE /\ connections' = connections
          /\ ev' = Event("createConnection", t.ip, "return",
                         CreateFailure(TransportError(resp)), 0, resp)
  /\ UNCHANGED ra

NotFound(switchId) == Err("No connection found for switch ID: " \o switchId, <<>>)

\* refreshSwitchData up to its await: the lookup, and the info request on the
\* connection found
RefreshSwitchDataCall(switchId) ==
  /\ IF MapHas(connections, switchId)
     THEN LET t == Task("refresh", "", "", switchId,
                        getConnection(connections, switchId).connection, "caller", <<>>)
          IN /\ CanSuspend(1)
             /\ t \notin tasks
             /\ tasks' = tasks \cup {t}
             /\ ev' = Event("refreshSwitchData", switchId, "pending", NoRet, 1, NoResponse)
     ELSE /\ tasks' = tasks
          /\ ev' = Event("refreshSwitchData", switchId, "throw",
                         Ret(FALSE, NoSummary, <<>>, NotFound(switchId)), 0, NoResponse)
  /\ UNCHANGED <<connections, ra>>

\* a faulty variant, for comparison: a failed refresh marks the stored summary offline
RefreshStoreMarkOffline(m, t, parsed) ==
  IF parsed.ok
  THEN MapSet(m, t.id, Entry(t.id, t.conn, parsed.data, t.conn))
  ELSE [i \in 1..Len(m) |->
          IF m[i].key = t.id THEN [m[i] EXCEPT !.switchData.status = "offline"] ELSE m[i]]

\* connections.set(switchId, {...conn, switchData: processedData}): conn is
\* the entry read before the await
RefreshStore(m, t, parsed) ==
  IF parsed.ok
  THEN MapSet(m, t.id, Entry(t.id, t.conn, parsed.data, t.conn))
  ELSE m

\* a faulty variant, for comparison: Promise.allSettled: a rejected refresh counts as a settled one
PromiseAllSettled(r, t, ok) ==
  IF t.owner # "all" \/ r.status # "pending" THEN ""
  ELSE IF r.started \subseteq (r.done \cup {t.id}) THEN "resolve"
  ELSE "wait"

\* Promise.all over the refreshes of one refreshAllConnections call: "reject"
\* at the first rejection, "resolve" at the last fulfilment, else "wait"; ""
\* when the refresh is not one of a pending refreshAllConnections
PromiseAll(r, t, ok) ==
  IF t.owner # "all" \/ r.status # "pending" THEN ""
  ELSE IF ~ok THEN "reject"
  ELSE IF r.started \subseteq (r.done \cup {t.id}) THEN "resolve"
  ELSE "wait"

\* the info request of a refresh is answered.  When this settles the
\* refreshAllConnections that started it, that call returns
\* getAllSwitchData() or rethrows in the same step.
RefreshResponse(t, resp, rnd) ==
  /\ t \in tasks
  /\ t.kind = "refresh"
  /\ tasks' = tasks \ {t}
  /\ LET parsed == IF TransportOk(resp) THEN processSwitchData(resp.raw, rnd)
                   ELSE Parsed(FALSE, TransportError(resp), NoSummary)
         all == PromiseAll(ra, t, parsed.ok)
     IN /\ connections' = RefreshStore(connections, t, parsed)
        /\ ra' = IF all \in {"reject", "resolve"} THEN RaIdle
                 ELSE IF all = "wait" THEN [ra EXCEPT !.done = ra.done \cup {t.id}]
                 ELSE ra
        /\ ev' = IF all = "resolve"
                 THEN Event("refreshAllConnections", t.id, "return",
                            RetAll(TRUE, getAllSwitchData(connections'), NoErr), 0, resp)
                 ELSE IF all = "reject"
                 THEN Event("refreshAllConnections", t.id, "throw",
                            RetAll(FALSE, <<>>, parsed.error), 0, resp)
                 ELSE Event("refreshSwitchData", t.id,
                            IF parsed.ok THEN "return" ELSE "throw",
                            Ret(parsed.ok, parsed.data, <<>>, parsed.error), 0, resp)

\* removeConnection
RemoveConnection(switchId) ==
  /\ connections' = MapDelete(connections, switchId)
  /\ ev' = Event("removeConnection", switchId, "return",
                 Ret(MapHas(connections, switchId), NoSummary, <<>>, NoErr), 0, NoResponse)
  /\ UNCHANGED <<tasks, ra>>

\* refreshAllConnections up to its await: one refreshSwitchData per key
RefreshAllConnectionsCall ==
  LET keys == MapKeys(connections)
      started == {Task("refresh", "", "", k, getConnection(connections, k).connection,
                       "all", <<>>) : k \in keys}
  IN /\ ra.status # "pending"
     /\ \A t \in tasks : t.owner # "all"
     /\ CanSuspend(Cardinality(keys))
     /\ tasks' = tasks \cup started
     /\ ra' = IF keys = {} THEN RaIdle ELSE RefreshAll("pending", keys, {})
     /\ ev' = IF keys = {}
              THEN Event("refreshAllConnections", "", "return",
                         RetAll(TRUE, getAllSwitchData(connections), NoErr), 0, NoResponse)
              ELSE Event("refreshAllConnections", "", "pending", NoRet, Cardinality(keys),
                         NoResponse)
     /\ UNCHANGED connections

\* executeCommands up to its await
ExecuteCommandsCall(switchId, commands) ==
  /\ IF MapHas(connections, switchId)
     THEN LET t == Task("exec", "", "", switchId,
                        getConnection(connections, switchId).connection, "caller", commands)
          IN /\ CanSuspend(1)
             /\ t \notin tasks
             /\ tasks' = tasks \cup {t}
             /\ ev' = Event("executeCommands", switchId, "pending", NoRet, 1, NoResponse)
     ELSE /\ tasks' = tasks
          /\ ev' = Event("executeCommands", switchId, "throw",
                         Ret(FALSE, NoSummary, <<>>, NotFound(switchId)), 0, NoResponse)
  /\ UNCHANGED <<connections, ra>>

\* what runCommands gives its caller for an answer
runCommands(resp) ==
  IF TransportOk(resp) THEN Ret(TRUE, NoSummary, resp.result, NoErr)
  ELSE Ret(FALSE, NoSummary, <<>>, TransportError(resp))

\* a faulty variant, for comparison: a failed command batch tears the session down
ExecSettleTearDown(m, t, ret) == IF ret.success THEN m ELSE MapDelete(m, t.id)

\* what a settled executeCommands does to the registry: nothing (the catch
\* block logs and rethrows)
ExecSettle(m, t, ret) == m

\* the runCommands request is answered; executeCommands passes it on
ExecResponse(t, resp) ==
  /\ t \in tasks
  /\ t.kind = "exec"
  /\ tasks' = tasks \ {t}
  /\ LET ret == runCommands(resp)
     IN /\ connections' = ExecSettle(connections, t, ret)
        /\ ev' = Event("executeCommands", t.id, IF ret.success THEN "return" ELSE "throw",
                       ret, 0, resp)
  /\ UNCHANGED ra

\* a domain service function is called: it runs up to its await on
\* executeCommands, or throws on the way
ServiceCall(fn, x) ==
  LET Ran(o) ==
        /\ svc' = ServiceRecord(fn, x, o)
        /\ IF o.threw
           THEN /\ ev' = Event(fn, x.switchId, "throw",
                               Ret(FALSE, NoSummary, <<>>, Err(o.error, <<>>)), 0, NoResponse)
                /\ UNCHANGED <<connections, tasks, ra>>
           ELSE /\ Len(o.calls) = 1
                /\ ExecuteCommandsCall(o.calls[1].switchId, o.calls[1].commands)
  IN Ran(Service(fn, x))

\* what the service function fn gives its caller once executeCommands has
\* settled with ret: the read functions parse the result array, the write
\* functions pass it on, and all rethrow an error
ServiceSettle(fn, ret) ==
  IF ~ret.success THEN ret
  ELSE CASE fn = "getStaticRoutes" ->
              [ret EXCEPT !.results = getStaticRoutesResult(ret.results)]
         [] fn = "getVlans" ->
              LET r == getVlansResult(ret.results)
              IN IF r.threw THEN Ret(FALSE, NoSummary, <<>>, Err(r.error, <<>>))
                 ELSE [ret EXCEPT !.results = r.vlans]
         [] OTHER -> ret

\* the runCommands request of the service call in progress is answered:
\* executeCommands settles and the service function with it
ServiceResponse(t, resp) ==
  /\ t \in tasks
  /\ t.kind = "exec"
  /\ tasks' = tasks \ {t}
  /\ LET Gives(ret) ==
           ev' = Event(svc.fn, t.id, IF ret.success THEN "return" ELSE "throw", ret, 0, resp)
     IN /\ connections' = ExecSettle(connections, t, runCommands(resp))
        /\ Gives(ServiceSettle(svc.fn, runCommands(resp)))
  /\ UNCHANGED <<ra, svc>>

\* the request reaches the device, which runs the commands and answers
DeviceResponse(t) ==
  LET RECURSIVE DeviceRun(_, _, _, _)
      \* command k did s: go on, or stop at a rejected command
      Stepped(d, k, results, s) ==
        IF s.ok THEN DeviceRun(s.dev, s.cur, k + 1, Append(results, s.result))
        ELSE [dev |-> d, failed |-> k, results |-> results]
      \* the commands from the k-th on; the device keeps what the commands
      \* before a rejected one did
      DeviceRun(d, cur, k, results) ==
        IF k > Len(t.cmds) THEN [dev |-> d, failed |-> 0, results |-> results]
        ELSE Stepped(d, k, results, DeviceStep(d, cur, t.cmds[k]))
      \* the eAPI answer to the run r, and the device after it
      Answered(r) ==
        /\ ServiceResponse(t, IF r.failed = 0
                              THEN Response("ok", 200, "", <<>>, r.results, NoRaw)
                              ELSE Response("apierr", 200,
                                            "CLI command " \o ToString(r.failed)
                                              \o " failed: invalid command",
                                            r.results, <<>>, NoRaw))
        /\ dev' = IF r.failed = 0 /\ svc.fn \in WriteOps
                  THEN [r.dev EXCEPT !.wrote = [fn |-> svc.fn, args |-> svc.args]]
                  ELSE r.dev
  IN Answered(DeviceRun(dev, <<>>, 1, <<>>))

\* getBgpConfig up to its first await: executeCommands for the summary (a
\* thrown error goes through the catch block of getBgpConfig, which rethrows
\* these two)
GetBgpConfigCall(switchId) ==
  /\ bgp.phase = "idle"
  /\ IF switchId = ""
     THEN /\ ev' = Event("getBgpConfig", switchId, "throw",
                         Ret(FALSE, NoSummary, <<>>, Err("No switch ID provided", <<>>)),
                         0, NoResponse)
          /\ UNCHANGED <<connections, tasks, ra>>
     ELSE ExecuteCommandsCall(switchId, <<<<"s", "h", "o", "w", " ", "i", "p", " ", "b", "g", "p", " ", "s", "u", "m", "m", "a", "r", "y">>>>)
  /\ bgp' = BgpCall(IF MapHas(connections, switchId) THEN "summary" ELSE "idle", <<>>,
                    BgpConfig(FALSE, JsNull, JsNull, <<>>),
                    IF MapHas(connections, switchId) THEN 1 ELSE 0)

\* what getBgpConfig gives its caller when error was thrown inside its try
\* block: the default object when the message includes 'not enabled' (of the
\* messages of the model, the device's 'BGP is not enabled' does), else the
\* error again
GetBgpConfigCatch(error) ==
  IF error.message = "API Error: BGP is not enabled"
  THEN Ret(TRUE, NoSummary, <<BgpConfig(FALSE, JsNull, JsNull, <<>>)>>, NoErr)
  ELSE Ret(FALSE, NoSummary, <<>>, error)

\* the summary request is answered: parse, and go on to the neighbors
\* request when the parsed asn is truthy
BgpSummaryResponse(t, resp) ==
  /\ t \in tasks
  /\ t.kind = "exec"
  /\ bgp.phase = "summary"
  /\ LET OutputOf(result) ==
           IF Len(result) > 0 /\ "output" \in DOMAIN result[1] THEN result[1].output ELSE <<>>
         t2 == Task("exec", "", "", t.id, getConnection(connections, t.id).connection,
                    "caller", <<<<"s", "h", "o", "w", " ", "i", "p", " ", "b", "g", "p", " ", "n", "e", "i", "g", "h", "b", "o", "r", "s">>>>)
         Gives(ret) ==
           /\ tasks' = tasks \ {t}
           /\ ev' = Event("getBgpConfig", t.id, IF ret.success THEN "return" ELSE "throw",
                          ret, 0, resp)
         Configured(output, config) ==
           IF Truthy(config.asn)
           THEN IF MapHas(connections, t.id)
                THEN /\ tasks' = (tasks \ {t}) \cup {t2}
                     /\ ev' = Event("getBgpConfig", t.id, "pending", NoRet, 1, resp)
                     /\ bgp' = BgpCall("neighbors", output, config, bgp.calls + 1)
                ELSE /\ Gives(GetBgpConfigCatch(NotFound(t.id)))
                     /\ bgp' = BgpCall("idle", output, config, bgp.calls)
           ELSE /\ Gives(Ret(TRUE, NoSummary, <<config>>, NoErr))
                /\ bgp' = BgpCall("idle", output, config, bgp.calls)
         Received(output) ==
           IF output # <<>> THEN Configured(output, parseBgpSummary(output))
           ELSE /\ Gives(Ret(TRUE, NoSummary, <<BgpConfig(FALSE, JsNull, JsNull, <<>>)>>, NoErr))
                /\ bgp' = [bgp EXCEPT !.phase = "idle"]
     IN IF TransportOk(resp) THEN Received(OutputOf(resp.result))
        ELSE /\ Gives(GetBgpConfigCatch(TransportError(resp)))
             /\ bgp' = [bgp EXCEPT !.phase = "idle"]
  /\ connections' = ExecSettle(connections, t, runCommands(resp))
  /\ UNCHANGED ra

\* the neighbors request is answered: the held bgpConfig gets the parsed
\* neighbors when there is an output, and is returned
BgpNeighborsResponse(t, resp) ==
  /\ t \in tasks
  /\ t.kind = "exec"
  /\ bgp.phase = "neighbors"
  /\ tasks' = tasks \ {t}
  /\ LET OutputOf(result) ==
           IF Len(result) > 0 /\ "output" \in DOMAIN result[1] THEN result[1].output ELSE <<>>
         Gives(ret) ==
           ev' = Event("getBgpConfig", t.id, IF ret.success THEN "return" ELSE "throw",
                       ret, 0, resp)
         Received(output) ==
           Gives(Ret(TRUE, NoSummary,
                     <<IF output # <<>>
                       THEN [bgp.config EXCEPT !.neighbors = parseBgpNeighbors(output)]
                       ELSE bgp.config>>,
                     NoErr))
     IN IF TransportOk(resp) THEN Received(OutputOf(resp.result))
        ELSE Gives(GetBgpConfigCatch(TransportError(resp)))
  /\ bgp' = [bgp EXCEPT !.phase = "idle"]
  /\ connections' = ExecSettle(connections, t, runCommands(resp))
  /\ UNCHANGED ra

\* a faulty variant, for comparison: every device is taken for a new one
NodeSeenNever(processed, id) == FALSE

\* processedNodeIds.has(id)
NodeSeen(processed, id) == id \in processed

\* a faulty variant, for comparison: every link is up
LinkStatusUp(interfaces, port) == "up"

\* interfaces[neighbor.localPort]?.status === 'connected' ? 'up' : 'down'
LinkStatus(interfaces, port) ==
  IF port \in DOMAIN interfaces /\ interfaces[port].status = <<"c", "o", "n", "n", "e", "c", "t", "e", "d">>
  THEN "up" ELSE "down"

\* the loop over the neighbors of the switch id in buildNetworkTopology: a
\* node for each device not seen before, a link for each neighbor
TopoLinks(tp, id, neighbors, interfaces) ==
  LET Includes(cs, lit) == IndexOf(cs, lit, 1) # 0
      NodeType(description) ==
        IF Includes(description, <<"s", "w", "i", "t", "c", "h">>) \/ Includes(description, <<"a", "r", "i", "s", "t", "a">>) THEN "switch"
        ELSE IF Includes(description, <<"r", "o", "u", "t", "e", "r">>) \/ Includes(description, <<"g", "a", "t", "e", "w", "a", "y">>) THEN "router"
        ELSE IF Includes(description, <<"s", "e", "r", "v", "e", "r">>) \/ Includes(description, <<"h", "o", "s", "t">>) THEN "server"
        ELSE IF Includes(description, <<"a", "p">>) \/ Includes(description, <<"a", "c", "c", "e", "s", "s", " ", "p", "o", "i", "n", "t">>) THEN "wireless"
        ELSE "unknown"
      Node(neighbor, neighborId) ==
        [id |-> neighborId,
         name |-> IF neighbor.remoteDeviceName # <<>> THEN neighbor.remoteDeviceName
                  ELSE <<"D", "e", "v", "i", "c", "e", "-">> \o SubSeq(neighborId, 8, Min(13, Len(neighborId))),
         type |-> NodeType(ToLowerCase(neighbor.remoteDescription)),
         status |-> "discovered", x |-> [mul |-> 0, div |-> 1], y |-> 0]
      Link(neighbor, neighborId) ==
        [id |-> <<"l", "i", "n", "k", "-">> \o IdChars(id) \o <<"-">> \o neighborId \o <<"-">> \o neighbor.localPort,
         source |-> IdChars(id), target |-> neighborId,
         sourcePort |-> neighbor.localPort, targetPort |-> neighbor.remotePort,
         status |-> LinkStatus(interfaces, neighbor.localPort)]
      RECURSIVE Each(_, _)
      Added(g, i, neighbor, neighborId) ==
        Each([g EXCEPT !.nodes = IF NodeSeen(g.processed, neighborId) THEN @
                                 ELSE Append(@, Node(neighbor, neighborId)),
                       !.processed = @ \cup {neighborId},
                       !.links = Append(@, Link(neighbor, neighborId))], i + 1)
      Each(g, i) ==
        IF i > Len(neighbors) THEN g
        ELSE Added(g, i, neighbors[i],
                   <<"d", "e", "v", "i", "c", "e", "-">> \o SelectSeq(neighbors[i].remoteChassisId, LAMBDA c : c # ":"))
  IN Each(tp, 1)

RECURSIVE TopoRun(_, _)

\* a faulty variant, for comparison: the first failure ends the loop
TopoCatchBreak(m, tp) ==
  [tp EXCEPT !.phase = "done", !.neighbors = <<>>, !.nodes = positionNodes(@)]

\* a faulty variant, for comparison: the links of the neighbors already
\* fetched are built before the next switch
TopoCatchLinks(m, tp) ==
  TopoRun(m, [TopoLinks(tp, tp.switches[tp.at], tp.neighbors, <<>>)
                EXCEPT !.at = @ + 1, !.neighbors = <<>>])

\* the catch block inside the loop of buildNetworkTopology: the error is
\* logged and the loop goes on with the next switch
TopoCatch(m, tp) == TopoRun(m, [tp EXCEPT !.at = @ + 1, !.neighbors = <<>>])

\* buildNetworkTopology from the head of its loop at tp.at, over the registry
\* m, up to the await of the next request it issues (phase "lldp") or to its
\* return (phase "done", the nodes positioned).  A switch without id or
\* already seen is skipped; for the others a node is pushed and
\* getLldpNeighbors is called, which throws at once when m has no session.
\* The switches are given by their ids: a node's name is 'Switch-<id>' and
\* its model and ipAddress, '' for every input, are left out.
TopoRun(m, tp) ==
  LET Logged(g, what) ==
        [g EXCEPT !.log = Append(@, [at |-> g.at, call |-> "lldp", what |-> what])]
      Called(g, id) ==
        IF MapHas(m, id) THEN [Logged(g, "issued") EXCEPT !.phase = "lldp"]
        ELSE TopoCatch(m, Logged(g, "rejected"))
      SwitchNode(id) ==
        [id |-> IdChars(id), name |-> <<"S", "w", "i", "t", "c", "h", "-">> \o IdChars(id), type |-> "switch",
         status |-> "online", x |-> [mul |-> 0, div |-> 1], y |-> 0]
      Body(id) ==
        IF id = "" \/ NodeSeen(tp.processed, IdChars(id))
        THEN TopoRun(m, [tp EXCEPT !.at = @ + 1])
        ELSE Called([tp EXCEPT !.nodes = Append(@, SwitchNode(id)),
                               !.processed = @ \cup {IdChars(id)}], id)
  IN IF tp.at > Len(tp.switches)
     THEN [tp EXCEPT !.phase = "done", !.nodes = positionNodes(@)]
     ELSE Body(tp.switches[tp.at])

\* buildNetworkTopology is called with the switches of the given ids: it
\* runs to its first await, or to its return when it has no request to make
BuildNetworkTopologyCall(switches) ==
  /\ topo.phase \in {"idle", "done"}
  /\ CanSuspend(1)
  /\ LET Ran(tp) ==
           /\ topo' = tp
           /\ IF tp.phase = "lldp"
              THEN /\ tasks' = tasks \cup
                        {Task("exec", "", "", tp.switches[tp.at],
                              getConnection(connections, tp.switches[tp.at]).connection,
                              "topology", <<<<"s", "h", "o", "w", " ", "l", "l", "d", "p", " ", "n", "e", "i", "g", "h", "b", "o", "r", "s", " ", "d", "e", "t", "a", "i", "l">>>>)}
                   /\ ev' = Event("buildNetworkTopology", "", "pending", NoRet, 1, NoResponse)
              ELSE /\ tasks' = tasks
                   /\ ev' = Event("buildNetworkTopology", "", "return",
                                  Ret(TRUE, NoSummary, <<[nodes |-> tp.nodes, links |-> tp.links]>>, NoErr),
                                  0, NoResponse)
     IN Ran(TopoRun(connections,
                    [phase |-> "idle", switches |-> switches, at |-> 1, nodes |-> <<>>,
                     links |-> <<>>, processed |-> {}, neighbors |-> <<>>, log |-> <<>>,
                     got |-> <<>>]))
  /\ UNCHANGED <<connections, ra>>

\* the 'show lldp neighbors detail' request of the switch at topo.at is
\* answered: getLldpNeighbors parses the output, and getInterfaceStatus
\* issues the next request; a failure of either goes to the catch block
TopoLldpResponse(t, resp) ==
  /\ t \in tasks
  /\ t.kind = "exec"
  /\ t.owner = "topology"
  /\ topo.phase = "lldp"
  /\ LET id == topo.switches[topo.at]
         OutputOf(result) ==
           IF Len(result) > 0 /\ "output" \in DOMAIN result[1] THEN result[1].output ELSE <<>>
         Logged(g, call, what) ==
           [g EXCEPT !.log = Append(@, [at |-> g.at, call |-> call, what |-> what])]
         Ran(tp) ==
           /\ topo' = tp
           /\ IF tp.phase = "lldp"
              THEN /\ tasks' = (tasks \ {t}) \cup
                        {Task("exec", "", "", tp.switches[tp.at],
                              getConnection(connections, tp.switches[tp.at]).connection,
                              "topology", <<<<"s", "h", "o", "w", " ", "l", "l", "d", "p", " ", "n", "e", "i", "g", "h", "b", "o", "r", "s", " ", "d", "e", "t", "a", "i", "l">>>>)}
                   /\ ev' = Event("buildNetworkTopology", "", "pending", NoRet, 1, resp)
              ELSE /\ tasks' = tasks \ {t}
                   /\ ev' = Event("buildNetworkTopology", "", "return",
                                  Ret(TRUE, NoSummary, <<[nodes |-> tp.nodes, links |-> tp.links]>>, NoErr),
                                  0, resp)
         Fetched(neighbors) ==
           IF MapHas(connections, id)
           THEN /\ topo' = [Logged(Logged(topo, "lldp", "fulfilled"), "status", "issued")
                              EXCEPT !.phase = "status", !.neighbors = neighbors]
                /\ tasks' = (tasks \ {t}) \cup
                     {Task("exec", "", "", id, getConnection(connections, id).connection,
                           "topology", <<<<"s", "h", "o", "w", " ", "i", "n", "t", "e", "r", "f", "a", "c", "e", "s", " ", "s", "t", "a", "t", "u", "s">>>>)}
                /\ ev' = Event("buildNetworkTopology", "", "pending", NoRet, 1, resp)
           ELSE Ran(TopoCatch(connections,
                              [Logged(Logged(topo, "lldp", "fulfilled"), "status", "rejected")
                                 EXCEPT !.neighbors = neighbors]))
         Received(output) ==
           Fetched(IF output # <<>> THEN parseLldpNeighbors(output) ELSE <<>>)
     IN IF TransportOk(resp) THEN Received(OutputOf(resp.result))
        ELSE Ran(TopoCatch(connections, Logged(topo, "lldp", "rejected")))
  /\ connections' = ExecSettle(connections, t, runCommands(resp))
  /\ UNCHANGED ra

\* the 'show interfaces status' request of the switch at topo.at is
\* answered: the nodes and links of its neighbors are added and the loop goes
\* on; a failure goes to the catch block
TopoStatusResponse(t, resp) ==
  /\ t \in tasks
  /\ t.kind = "exec"
  /\ t.owner = "topology"
  /\ topo.phase = "status"
  /\ LET id == topo.switches[topo.at]
         OutputOf(result) ==
           IF Len(result) > 0 /\ "output" \in DOMAIN result[1] THEN result[1].output ELSE <<>>
         Logged(g, what) ==
           [g EXCEPT !.log = Append(@, [at |-> g.at, call |-> "status", what |-> what])]
         Ran(tp) ==
           /\ topo' = tp
           /\ IF tp.phase = "lldp"
              THEN /\ tasks' = (tasks \ {t}) \cup
                        {Task("exec", "", "", tp.switches[tp.at],
                              getConnection(connections, tp.switches[tp.at]).connection,
                              "topology", <<<<"s", "h", "o", "w", " ", "l", "l", "d", "p", " ", "n", "e", "i", "g", "h", "b", "o", "r", "s", " ", "d", "e", "t", "a", "i", "l">>>>)}
                   /\ ev' = Event("buildNetworkTopology", "", "pending", NoRet, 1, resp)
              ELSE /\ tasks' = tasks \ {t}
                   /\ ev' = Event("buildNetworkTopology", "", "return",
                                  Ret(TRUE, NoSummary, <<[nodes |-> tp.nodes, links |-> tp.links]>>, NoErr),
                                  0, resp)
         Fetched(interfaces) ==
           Ran(TopoRun(connections,
                       [TopoLinks([Logged(topo, "fulfilled") EXCEPT
                                     !.got = Append(@, [at |-> topo.at, neighbors |-> topo.neighbors,
                                                        interfaces |-> interfaces])],
                                  id, topo.neighbors, interfaces)
                          EXCEPT !.at = @ + 1, !.neighbors = <<>>]))
         Received(output) ==
           Fetched(IF output # <<>> THEN parseInterfaceStatus(output) ELSE <<>>)
     IN IF TransportOk(resp) THEN Received(OutputOf(resp.result))
        ELSE Ran(TopoCatch(connections, Logged(topo, "rejected")))
  /\ connections' = ExecSettle(connections, t, runCommands(resp))
  /\ UNCHANGED ra

\* CliTab.executeCommand for the text in the command box, in the tab of the
\* session StoredId, up to its await on executeCli or to its end.  A blank
\* text does nothing.  In config mode 'end' calls executeCli with the
\* buffered lines between 'configure' and 'end', any other text is appended
\* to the buffer; outside it 'configure' and 'configure terminal' enter
\* config mode and any other text is executed.  executeCli passes the list
\* to executeCommands, which throws at once when the session is not stored;
\* the catch block of executeCommand leaves mode and buffer as they are.  In
\* ev, arg is the branch taken and outcome "throw" says the catch block ran.
\* The command history and the toast are left out.
CliExecuteCommand(command) ==
  /\ CanSuspend(1)
  /\ LET line == Trim(command)
         Did(called) ==
           [line |-> line, mode |-> cli.configMode, buffer |-> cli.configBuffer, called |-> called]
         Done(branch, mode, buffer) ==
           /\ cli' = [configMode |-> mode, configBuffer |-> buffer, last |-> Did(<<>>)]
           /\ tasks' = tasks
           /\ ev' = Event("executeCommand", branch, "return", NoRet, 0, NoResponse)
         ExecuteCli(branch, commands) ==
           /\ cli' = [cli EXCEPT !.last = Did(commands)]
           /\ IF MapHas(connections, StoredId)
              THEN /\ tasks' = tasks \cup
                        {Task("exec", "", "", StoredId, getConnection(connections, StoredId).connection,
                              IF \E t \in tasks : t.owner = "cli" THEN "cli again" ELSE "cli",
                              commands)}
                   /\ ev' = Event("executeCommand", branch, "pending", NoRet, 1, NoResponse)
              ELSE /\ tasks' = tasks
                   /\ ev' = Event("executeCommand", branch, "throw",
                                  Ret(FALSE, NoSummary, <<>>, NotFound(StoredId)), 0, NoResponse)
     IN IF line = <<>> THEN Done("blank", cli.configMode, cli.configBuffer)
        ELSE IF cli.configMode
        THEN IF ToLowerCase(line) = End
             THEN ExecuteCli("end", <<Configure>> \o FilterBoolean(Split(cli.configBuffer, "\n")) \o <<End>>)
             ELSE Done("buffer", TRUE,
                       cli.configBuffer \o (IF cli.configBuffer # <<>> THEN <<"\n">> ELSE <<>>) \o line)
        ELSE IF ToLowerCase(line) \in {<<"c", "o", "n", "f", "i", "g", "u", "r", "e", " ", "t", "e", "r", "m", "i", "n", "a", "l">>, Configure}
        THEN Done("configure", TRUE, cli.configBuffer)
        ELSE ExecuteCli("single", <<line>>)
  /\ UNCHANGED <<connections, ra>>

\* the executeCli call of an executeCommand is answered: after the call made
\* for 'end' (the one with more than one command) the tab leaves config mode
\* and empties the buffer; a failure goes to the catch block
CliResponse(t, resp) ==
  /\ t \in tasks
  /\ t.kind = "exec"
  /\ t.owner \in {"cli", "cli again"}
  /\ tasks' = tasks \ {t}
  /\ LET ret == runCommands(resp)
         branch == IF Len(t.cmds) > 1 THEN "end" ELSE "single"
     IN /\ connections' = ExecSettle(connections, t, ret)
        /\ cli' = IF ret.success /\ branch = "end"
                  THEN [cli EXCEPT !.configMode = FALSE, !.configBuffer = <<>>]
                  ELSE cli
        /\ ev' = Event("executeCommand", branch, IF ret.success THEN "return" ELSE "throw",
                       ret, 0, resp)
  /\ UNCHANGED ra

\* the registry's life cycle: create, refresh, refresh-all, remove
Next ==
  \/ /\ \E ip \in Addresses, cred \in Credentials : CreateConnectionCall(ip, cred)
     /\ UNCHANGED <<snap, svc, dev, bgp, topo, cli>>
  \/ /\ \E t \in tasks : \E resp \in ProbeResponses(t.ip) : ConnectResponse(t, resp)
     /\ UNCHANGED <<snap, svc, dev, bgp, topo, cli>>
  \/ /\ \E t \in tasks : \E resp \in InfoResponses(t.ip) : \E rnd \in RandomDraws(resp) :
          CreateInfoResponse(t, resp, rnd)
     /\ UNCHANGED <<snap, svc, dev, bgp, topo, cli>>
  \/ /\ \E id \in SwitchIds : RefreshSwitchDataCall(id)
     /\ UNCHANGED <<snap, svc, dev, bgp, topo, cli>>
  \/ /\ \E t \in tasks : \E resp \in InfoResponses(t.conn.ip) : \E rnd \in RandomDraws(resp) :
          RefreshResponse(t, resp, rnd)
     /\ UNCHANGED <<snap, svc, dev, bgp, topo, cli>>
  \/ /\ \E id \in SwitchIds : RemoveConnection(id)
     /\ UNCHANGED <<snap, svc, dev, bgp, topo, cli>>
  \/ /\ RefreshAllConnectionsCall
     /\ UNCHANGED <<snap, svc, dev, bgp, topo, cli>>

Spec == Init /\ [][Next]_vars

\* command execution over the registry: sessions come and go while
\* executeCommands calls are in flight
NextExec ==
  \/ /\ \E ip \in Addresses, cred \in Credentials : CreateConnectionCall(ip, cred)
     /\ UNCHANGED <<snap, svc, dev, bgp, topo, cli>>
  \/ /\ \E t \in tasks : \E resp \in ProbeResponses(t.ip) : ConnectResponse(t, resp)
     /\ UNCHANGED <<snap, svc, dev, bgp, topo, cli>>
  \/ /\ \E t \in tasks : \E resp \in InfoResponses(t.ip) : \E rnd \in RandomDraws(resp) :
          CreateInfoResponse(t, resp, rnd)
     /\ UNCHANGED <<snap, svc, dev, bgp, topo, cli>>
  \/ /\ \E id \in SwitchIds : RemoveConnection(id)
     /\ UNCHANGED <<snap, svc, dev, bgp, topo, cli>>
  \/ /\ \E id \in SwitchIds, cmds \in ExecInputs : ExecuteCommandsCall(id, cmds)
     /\ UNCHANGED <<snap, svc, dev, bgp, topo, cli>>
  \/ /\ \E t \in tasks : \E resp \in CmdResponses(t.cmds) : ExecResponse(t, resp)
     /\ UNCHANGED <<snap, svc, dev, bgp, topo, cli>>

SpecExec == Init /\ [][NextExec]_vars

\* one refreshAllConnections at a time over a registry nothing else touches
\* while it runs: sessions are created only when nothing is in flight.  snap
\* keeps what getAllSwitchData() returned when the refresh-all was called.
NextRefreshAll ==
  \/ /\ tasks = {}
     /\ \E ip \in Addresses, cred \in Credentials : CreateConnectionCall(ip, cred)
     /\ UNCHANGED <<snap, svc, dev, bgp, topo, cli>>
  \/ /\ \E t \in tasks : \E resp \in ProbeResponses(t.ip) : ConnectResponse(t, resp)
     /\ UNCHANGED <<snap, svc, dev, bgp, topo, cli>>
  \/ /\ \E t \in tasks : \E resp \in InfoResponses(t.ip) : \E rnd \in RandomDraws(resp) :
          CreateInfoResponse(t, resp, rnd)
     /\ UNCHANGED <<snap, svc, dev, bgp, topo, cli>>
  \/ /\ tasks = {}
     /\ RefreshAllConnectionsCall
     /\ snap' = getAllSwitchData(connections)
     /\ UNCHANGED <<svc, dev, bgp, topo, cli>>
  \/ /\ \E t \in tasks : \E resp \in InfoResponses(t.conn.ip) : \E rnd \in RandomDraws(resp) :
          RefreshResponse(t, resp, rnd)
     /\ UNCHANGED <<snap, svc, dev, bgp, topo, cli>>

SpecRefreshAll == Init /\ [][NextRefreshAll]_vars

\* the domain services, one call at a time, over a registry that holds at
\* most the one device that reports a serial number
NextSvc ==
  \/ /\ tasks = {}
     /\ \E cred \in Credentials : CreateConnectionCall("ipA", cred)
     /\ UNCHANGED <<snap, svc, dev, bgp, topo, cli>>
  \/ /\ \E t \in tasks : \E resp \in ProbeResponses(t.ip) : ConnectResponse(t, resp)
     /\ UNCHANGED <<snap, svc, dev, bgp, topo, cli>>
  \/ /\ \E t \in tasks : \E resp \in InfoResponses(t.ip) :
           \E rnd \in RandomDraws(resp) : CreateInfoResponse(t, resp, rnd)
     /\ UNCHANGED <<snap, svc, dev, bgp, topo, cli>>
  \/ /\ RemoveConnection(StoredId)
     /\ UNCHANGED <<snap, svc, dev, bgp, topo, cli>>
  \/ /\ tasks = {}
     /\ \E fn \in WriteOps : \E x \in ServiceInputs(fn) : ServiceCall(fn, x)
     /\ UNCHANGED <<snap, dev, bgp, topo, cli>>
  \/ /\ \E t \in tasks : \E resp \in CmdResponses(t.cmds) : ExecResponse(t, resp)
     /\ UNCHANGED <<snap, svc, dev, bgp, topo, cli>>

SpecSvc == Init /\ [][NextSvc]_vars

\* the calls made in the specification that follows the device: routes and
\* VLANs are written, then read back
DeviceInputs(fn) ==
  LET A(a, b, v) == Args(StoredId, a, b, FALSE, v, JsNull, <<>>)
      Num(ds) == JsNum(FALSE, ds, <<>>)
      hop == <<"1", "0", ".", "0", ".", "0", ".", "1">>
  IN CASE fn = "addStaticRoute" ->
            { A(p, hop, JsUndefined) : p \in {<<"1", "0", ".", "0", ".", "0", ".", "0", "/", "2", "4">>, <<"1", "0", ".", "0", ".", "0", ".", "0", "/", "2", "4", "a", "b", "c">>} }
            \cup { A(<<"0", ".", "0", ".", "0", ".", "0", "/", "0">>, <<"1", "9", "2", ".", "1", "6", "8", ".", "1", ".", "1">>, d) : d \in {Num(<<"1", "0">>), Num(<<"2", "5", "6">>)} }
       [] fn = "createVlan" ->
            { A(n, <<>>, Num(<<"1", "0">>)) : n \in {<<"p", "r", "o", "d">>, <<"i", "t", "'", "s">>, <<>>} }
            \cup { A(<<"l", "a", "b">>, <<>>, JsStr(<<"7">>)) }
       [] fn = "deleteVlan" -> { A(<<>>, <<>>, v) : v \in {Num(<<"1", "0">>), Num(<<"4", "0", "9", "5">>)} }
       [] OTHER -> { A(<<>>, <<>>, JsNull) }

\* the services that write and read routes and VLANs, one call at a time,
\* against the device
NextDevice ==
  \/ /\ tasks = {}
     /\ connections = <<>>
     /\ \E cred \in Credentials : CreateConnectionCall("ipA", cred)
     /\ UNCHANGED <<snap, svc, dev, bgp, topo, cli>>
  \/ /\ \E t \in tasks : \E resp \in ProbeResponses(t.ip) : ConnectResponse(t, resp)
     /\ UNCHANGED <<snap, svc, dev, bgp, topo, cli>>
  \/ /\ \E t \in tasks : \E resp \in InfoResponses(t.ip) :
           \E rnd \in RandomDraws(resp) : CreateInfoResponse(t, resp, rnd)
     /\ UNCHANGED <<snap, svc, dev, bgp, topo, cli>>
  \/ /\ tasks = {}
     /\ \E fn \in {"addStaticRoute", "createVlan", "deleteVlan", "getStaticRoutes", "getVlans"} :
           \E x \in DeviceInputs(fn) : ServiceCall(fn, x)
     /\ UNCHANGED <<snap, dev, bgp, topo, cli>>
  \/ /\ \E t \in tasks : DeviceResponse(t)
     /\ UNCHANGED <<snap, bgp, topo, cli>>
  \/ /\ \E t \in tasks :
           ServiceResponse(t, Response("netfail", 0, "Failed to fetch", <<>>, <<>>, NoRaw))
     /\ UNCHANGED <<snap, dev, bgp, topo, cli>>

SpecDevice == Init /\ [][NextDevice]_vars

\* the answers of the device to the show command of a getBgpConfig request:
\* a failure, no output, or one of the sample texts
BgpResponses(cmds) ==
  LET Text(cs) == Response("ok", 200, "", <<>>, <<[output |-> cs]>>, NoRaw)
  IN FailureResponses \cup
     { Response("apierr", 200, "BGP is not enabled", <<>>, <<>>, NoRaw),
       Response("ok", 200, "", <<>>, <<>>, NoRaw),
       Text(<<>>) } \cup
     IF cmds = <<<<"s", "h", "o", "w", " ", "i", "p", " ", "b", "g", "p", " ", "s", "u", "m", "m", "a", "r", "y">>>>
     THEN { Text(<<"B", "G", "P", " ", "n", "o", "t", " ", "a", "c", "t", "i", "v", "e">>),
            Text(<<"B", "G", "P", " ", "n", "o", "t", " ", "a", "c", "t", "i", "v", "e", "\n", "B", "G", "P", " ", "r", "o", "u", "t", "e", "r", " ", "i", "d", "e", "n", "t", "i", "f", "i", "e", "r", " ", "1", ".", "1", ".", "1", ".", "1", ",", " ", "l", "o", "c", "a", "l", " ", "A", "S", " ", "n", "u", "m", "b", "e", "r", " ", "6", "5", "0", "0", "0", "\n">>),
            Text(<<"B", "G", "P", " ", "r", "o", "u", "t", "e", "r", " ", "i", "d", "e", "n", "t", "i", "f", "i", "e", "r", " ", "1", ".", "1", ".", "1", ".", "1", ",", " ", "l", "o", "c", "a", "l", " ", "A", "S", " ", "n", "u", "m", "b", "e", "r", " ", "6", "5", "0", "0", "0", "\n", "1", "0", ".", "0", ".", "0", ".", "2", " ", "4", " ", "6", "5", "0", "0", "1", " ", "9", "\n">>),
            Text(<<"B", "G", "P", " ", "r", "o", "u", "t", "e", "r", " ", "i", "d", "e", "n", "t", "i", "f", "i", "e", "r", " ", "1", ".", "1", ".", "1", ".", "1", ",", " ", "l", "o", "c", "a", "l", " ", "A", "S", " ", "n", "u", "m", "b", "e", "r", " ", "0", "\n">>),
            Text(<<"N", "e", "i", "g", "h", "b", "o", "r", " ", "V", " ", "A", "S", "\n", "1", "0", ".", "0", ".", "0", ".", "2", " ", "4", " ", "6", "5", "0", "0", "1", " ", "9", "\n">>),
            Text(<<"%", " ", "B", "G", "P", " ", "i", "n", "a", "c", "t", "i", "v", "e">>) }
     ELSE { Text(<<"B", "G", "P", " ", "n", "e", "i", "g", "h", "b", "o", "r", " ", "i", "s", " ", "1", "0", ".", "0", ".", "0", ".", "2", "\n", "R", "e", "m", "o", "t", "e", " ", "A", "S", " ", "6", "5", "0", "0", "1", "\n", "B", "G", "P", " ", "s", "t", "a", "t", "e", " ", "=", " ", "E", "s", "t", "a", "b", "l", "i", "s", "h", "e", "d", "\n", "U", "p", "t", "i", "m", "e", ":", " ", "0", "0", ":", "0", "1", ":", "0", "0", "\n", "5", " ", "a", "c", "c", "e", "p", "t", "e", "d", " ", "p", "r", "e", "f", "i", "x", "e", "s", "\n">>),
            Text(<<"B", "G", "P", " ", "n", "e", "i", "g", "h", "b", "o", "r", " ", "i", "s", " ", "1", "0", ".", "0", ".", "0", ".", "2", ",", " ", "x", "\n", "B", "G", "P", " ", "n", "e", "i", "g", "h", "b", "o", "r", " ", "i", "s", " ", "1", "0", ".", "0", ".", "0", ".", "3", " ", "R", "e", "m", "o", "t", "e", " ", "A", "S", " ", "7">>),
            Text(<<"n", "o", " ", "n", "e", "i", "g", "h", "b", "o", "r", "s">>) }

\* getBgpConfig on a registry with at most the session of "ipA": one call at
\* a time, the session may be removed while the call is in flight
NextBgp ==
  \/ /\ tasks = {}
     /\ connections = <<>>
     /\ \E cred \in Credentials : CreateConnectionCall("ipA", cred)
     /\ UNCHANGED <<snap, svc, dev, bgp, topo, cli>>
  \/ /\ \E t \in tasks : \E resp \in ProbeResponses(t.ip) : ConnectResponse(t, resp)
     /\ UNCHANGED <<snap, svc, dev, bgp, topo, cli>>
  \/ /\ \E t \in tasks : \E resp \in InfoResponses(t.ip) :
           \E rnd \in RandomDraws(resp) : CreateInfoResponse(t, resp, rnd)
     /\ UNCHANGED <<snap, svc, dev, bgp, topo, cli>>
  \/ /\ RemoveConnection(StoredId)
     /\ UNCHANGED <<snap, svc, dev, bgp, topo, cli>>
  \/ /\ tasks = {}
     /\ \E id \in {StoredId, ""} : GetBgpConfigCall(id)
     /\ UNCHANGED <<snap, svc, dev, topo, cli>>
  \/ /\ \E t \in tasks : \E resp \in BgpResponses(t.cmds) : BgpSummaryResponse(t, resp)
     /\ UNCHANGED <<snap, svc, dev, topo, cli>>
  \/ /\ \E t \in tasks : \E resp \in BgpResponses(t.cmds) : BgpNeighborsResponse(t, resp)
     /\ UNCHANGED <<snap, svc, dev, topo, cli>>

SpecBgp == Init /\ [][NextBgp]_vars

\* buildNetworkTopology over a registry with up to the sessions of "ipA" and
\* "ipC", given the switches in some order, one twice and one without id.
\* The session of "ipA" may be removed at any time.  A request is answered
\* with a failure, with no output or with one of the sample texts: for the
\* neighbors a device with a description, two devices, two sections for one
\* port without chassis id, and a text without section; for the interface
\* status a table where Et1 is connected and one where it is disabled.
NextTopo ==
  \/ /\ tasks = {}
     /\ topo.phase = "idle"
     /\ \E ip \in Addresses, cred \in Credentials :
          /\ \A i \in 1..Len(connections) : connections[i].connection.ip # ip
          /\ CreateConnectionCall(ip, cred)
     /\ UNCHANGED <<snap, svc, dev, bgp, topo, cli>>
  \/ /\ \E t \in tasks : \E resp \in ProbeResponses(t.ip) : ConnectResponse(t, resp)
     /\ UNCHANGED <<snap, svc, dev, bgp, topo, cli>>
  \/ /\ \E t \in tasks : \E resp \in InfoResponses(t.ip) :
          \E rnd \in RandomDraws(resp) : CreateInfoResponse(t, resp, rnd)
     /\ UNCHANGED <<snap, svc, dev, bgp, topo, cli>>
  \/ /\ topo.phase \in {"lldp", "status"}
     /\ RemoveConnection(StoredId)
     /\ UNCHANGED <<snap, svc, dev, bgp, topo, cli>>
  \/ /\ tasks = {}
     /\ \E switches \in { <<>>, <<"SN-A">>, <<"SN-A", "rnd1">>, <<"rnd1", "SN-A">>,
                          <<"SN-A", "", "SN-A", "rnd1">> } :
          BuildNetworkTopologyCall(switches)
     /\ UNCHANGED <<snap, svc, dev, bgp, cli>>
  \/ /\ \E t \in tasks :
          \E resp \in FailureResponses \cup
                      { Response("ok", 200, "", <<>>, <<>>, NoRaw) } \cup
                      { Response("ok", 200, "", <<>>, <<[output |-> text]>>, NoRaw) :
                          text \in { <<"P", "o", "r", "t", " ", ":", " ", "E", "t", "1", "\n", "C", "h", "a", "s", "s", "i", "s", " ", "i", "d", " ", ":", " ", "a", "a", ":", "b", "b", "\n", "S", "y", "s", "t", "e", "m", " ", "D", "e", "s", "c", "r", "i", "p", "t", "i", "o", "n", " ", ":", " ", "\"", "A", "r", "i", "s", "t", "a", "\"", "\n">>,
                                     <<"P", "o", "r", "t", " ", ":", " ", "E", "t", "1", "\n", "C", "h", "a", "s", "s", "i", "s", " ", "i", "d", " ", ":", " ", "a", "a", ":", "b", "b", "\n", "P", "o", "r", "t", " ", ":", " ", "E", "t", "2", "\n", "C", "h", "a", "s", "s", "i", "s", " ", "i", "d", " ", ":", " ", "c", "c", "\n", "S", "y", "s", "t", "e", "m", " ", "N", "a", "m", "e", " ", ":", " ", "\"", "s", "r", "v", "\"", "\n">>,
                                     <<"P", "o", "r", "t", " ", ":", " ", "E", "t", "1", "\n", "P", "o", "r", "t", " ", ":", " ", "E", "t", "1", "\n">>,
                                     <<"n", "o", " ", "n", "e", "i", "g", "h", "b", "o", "r", "s">> } } :
            TopoLldpResponse(t, resp)
     /\ UNCHANGED <<snap, svc, dev, bgp, cli>>
  \/ /\ \E t \in tasks :
          \E resp \in FailureResponses \cup
                      { Response("ok", 200, "", <<>>, <<>>, NoRaw) } \cup
                      { Response("ok", 200, "", <<>>, <<[output |-> text]>>, NoRaw) :
                          text \in { <<"P", "o", "r", "t", " ", "S", "t", "a", "t", "u", "s", " ", "V", "l", "a", "n", "\n", "E", "t", "1", " ", "C", "o", "n", "n", "e", "c", "t", "e", "d", " ", "1", "\n", "E", "t", "2", " ", "n", "o", "t", "c", "o", "n", "n", "e", "c", "t", " ", "1", "\n">>,
                                     <<"P", "o", "r", "t", " ", "S", "t", "a", "t", "u", "s", " ", "V", "l", "a", "n", "\n", "E", "t", "1", " ", "d", "i", "s", "a", "b", "l", "e", "d", " ", "1", "\n">> } } :
            TopoStatusResponse(t, resp)
     /\ UNCHANGED <<snap, svc, dev, bgp, cli>>

SpecTopo == Init /\ [][NextTopo]_vars

\* the registry when the operator connects to "ipA" under either of two
\* accounts and refreshes its session, the calls overlapping freely
NextRace ==
  \/ /\ \E cred \in {"admin", "oper"} : CreateConnectionCall("ipA", cred)
     /\ UNCHANGED <<snap, svc, dev, bgp, topo, cli>>
  \/ /\ \E t \in tasks : \E resp \in ProbeResponses(t.ip) : ConnectResponse(t, resp)
     /\ UNCHANGED <<snap, svc, dev, bgp, topo, cli>>
  \/ /\ \E t \in tasks : \E resp \in InfoResponses(t.ip) : \E rnd \in RandomDraws(resp) :
          CreateInfoResponse(t, resp, rnd)
     /\ UNCHANGED <<snap, svc, dev, bgp, topo, cli>>
  \/ /\ RefreshSwitchDataCall(StoredId)
     /\ UNCHANGED <<snap, svc, dev, bgp, topo, cli>>
  \/ /\ \E t \in tasks : \E resp \in InfoResponses(t.conn.ip) : \E rnd \in RandomDraws(resp) :
          RefreshResponse(t, resp, rnd)
     /\ UNCHANGED <<snap, svc, dev, bgp, topo, cli>>

SpecRace == Init /\ [][NextRace]_vars

\* lines the CLI tab may hold in its buffer in the specification below
MaxBuffered == 2

\* the CLI tab of the session of "ipA": the operator connects, may remove the
\* session, and enters lines (blank, 'configure' in two spellings, 'end' in
\* two spellings, a configuration line, a show command), also while a call
\* is in flight, since the Enter key is not disabled then
NextCli ==
  \/ /\ tasks = {}
     /\ connections = <<>>
     /\ \E cred \in Credentials : CreateConnectionCall("ipA", cred)
     /\ UNCHANGED <<snap, svc, dev, bgp, topo, cli>>
  \/ /\ \E t \in tasks : \E resp \in ProbeResponses(t.ip) : ConnectResponse(t, resp)
     /\ UNCHANGED <<snap, svc, dev, bgp, topo, cli>>
  \/ /\ \E t \in tasks : \E resp \in InfoResponses(t.ip) :
          \E rnd \in RandomDraws(resp) : CreateInfoResponse(t, resp, rnd)
     /\ UNCHANGED <<snap, svc, dev, bgp, topo, cli>>
  \/ /\ RemoveConnection(StoredId)
     /\ UNCHANGED <<snap, svc, dev, bgp, topo, cli>>
  \/ /\ \A t \in tasks : t.kind = "exec"
     /\ \E command \in { <<" ", " ">>, <<"c", "o", "n", "f", "i", "g", "u", "r", "e">>, <<"C", "o", "n", "f", "i", "g", "u", "r", "e", " ", "T", "e", "r", "m", "i", "n", "a", "l">>, <<"e", "n", "d">>, <<" ", "E", "n", "d">>,
                         <<"v", "l", "a", "n", " ", "1", "0">>, <<"n", "a", "m", "e", " ", "l", "a", "b", " ">>, <<"s", "h", "o", "w", " ", "v", "e", "r", "s", "i", "o", "n">> } :
          \* the tab is shown for a switch that was connected
          /\ MapHas(connections, StoredId) \/ cli.last.line # <<>>
          /\ cli.configMode => Len(FilterBoolean(Split(cli.configBuffer, "\n"))) < MaxBuffered
                                 \/ ToLowerCase(Trim(command)) = End
          /\ CliExecuteCommand(command)
     /\ UNCHANGED <<snap, svc, dev, bgp, topo>>
  \/ /\ \E t \in tasks : \E resp \in CmdResponses(t.cmds) : CliResponse(t, resp)
     /\ UNCHANGED <<snap, svc, dev, bgp, topo>>

SpecCli == Init /\ [][NextCli]_vars

----------------------------------------------------------------------------
(* The switch-info parser applied to result arrays of every length *)

\* the result arrays the parser is given: 3 to 7 results, the version result
\* with and without a serial number, the figures of the top-processes result
\* (present from 7 results on) and the sensor readings of the temperature
\* result (present from 5 results on)
RawInputs ==
  { [len |-> n, serialNumber |-> sn,
     cpuPcts |-> IF n >= 7 THEN c ELSE <<>>,
     memTotal |-> IF n >= 7 THEN mt ELSE 0,
     memFree |-> IF n >= 7 THEN mf ELSE 0,
     links |-> l,
     temps |-> IF n >= 5 THEN tp ELSE <<>>] :
      n \in 3..7, sn \in {"SN-A", ""},
      c \in {<<>>, <<10>>, <<60, 70>>, <<-5>>},
      mt \in {0, 100}, mf \in {0, 40, 150},
      l \in {<<>>, <<"connected", "notconnect">>},
      tp \in {<<>>, <<40, 45>>, <<0, 30>>} }

\* a result array has arrived and has not been parsed yet
InitParse ==
  /\ connections = <<>>
  /\ tasks = {}
  /\ ra = RaIdle
  /\ \E raw \in RawInputs :
       ev = Event("init", "", "return", NoRet, 0, Response("ok", 200, "", <<>>, <<>>, raw))
  /\ snap = <<>>
  /\ cli = [configMode |-> FALSE, configBuffer |-> <<>>, last |-> [line |-> <<>>, mode |-> FALSE, buffer |-> <<>>, called |-> <<>>]]
  /\ topo = [phase |-> "idle", switches |-> <<>>, at |-> 0, nodes |-> <<>>, links |-> <<>>, processed |-> {}, neighbors |-> <<>>, log |-> <<>>, got |-> <<>>]
  /\ bgp = BgpCall("idle", <<>>, BgpConfig(FALSE, JsNull, JsNull, <<>>), 0)
  /\ svc = NoService
  /\ dev = Device(<<>>, <<>>, [fn |-> "", args |-> NoService.args])

\* one call processSwitchData(rawData) on the array that arrived
ParseCall(rnd) ==
  /\ LET parsed == processSwitchData(ev.resp.raw, rnd)
     IN ev' = Event("processSwitchData", "", IF parsed.ok THEN "return" ELSE "throw",
                    Ret(parsed.ok, parsed.data, <<>>, parsed.error), 0, ev.resp)
  /\ UNCHANGED <<connections, tasks, ra, snap, svc, dev, bgp, topo, cli>>

NextParse == \E rnd \in RandomDraws(ev.resp) : ParseCall(rnd)

SpecParse == InitParse /\ [][NextParse]_vars

----------------------------------------------------------------------------
(* Properties of the registry *)

\* the step settled a call of op (it returned or threw)
Settled(e, op) == e.op = op /\ e.outcome \in {"return", "throw"}

\* the step was the synchronous start of a call of op
Called(e, op) == e.op = op /\ e.resp = NoResponse

\* the fetch or the parse of an info request failed
InfoFailed(resp) == ~TransportOk(resp) \/ ~processSwitchData(resp.raw, "rnd1").ok

\* C1: createConnection never throws; it stores a session only in the step
\* where the info fetch and its parse succeeded (the transport was opened
\* before), under the parsed id; a failure is returned as {success: false,
\* error: message} and leaves the registry as it was.
C1_CreateStoresOnlyOnSuccess ==
  [][ ev'.op = "createConnection" =>
        /\ ev'.outcome # "throw"
        /\ ev'.outcome = "pending" => connections' = connections
        /\ (ev'.outcome = "return" /\ ~ev'.ret.success) =>
              /\ connections' = connections
              /\ ev'.ret.error.message # ""
        /\ (ev'.outcome = "return" /\ ev'.ret.success) =>
              /\ ~InfoFailed(ev'.resp)
              /\ MapHas(connections', ev'.ret.switchData.id)
              /\ MapGet(connections', ev'.ret.switchData.id).switchData = ev'.ret.switchData
        /\ (ev'.outcome = "return" /\ InfoFailed(ev'.resp)) => ~ev'.ret.success
    ]_vars

\* C1 witness: a createConnection whose info parse failed returned a failure
\* while another session was stored
C1_Witness ==
  /\ Settled(ev, "createConnection")
  /\ ~ev.ret.success
  /\ TransportOk(ev.resp)
  /\ Len(connections) > 0

\* C2: when a refreshAllConnections rejects, getAllSwitchData() returns what
\* it returned before the call: no summary was overwritten by that refresh-all.
C2_NoPartialOverwrite ==
  [][ (ev'.op = "refreshAllConnections" /\ ev'.outcome = "throw") =>
        getAllSwitchData(connections') = snap ]_vars

\* C3: every stored summary's id is the key its session is stored under.
C3_SummaryIdIsKey ==
  \A i \in 1..Len(connections) : connections[i].switchData.id = connections[i].key

\* C4: an id that is not stored (it was removed, or never created) becomes
\* stored again only by a createConnection.
C4_RemovedStaysRemoved ==
  [][ \A id \in SwitchIds :
        (~MapHas(connections, id) /\ MapHas(connections', id)) =>
           Settled(ev', "createConnection") ]_vars

\* C5: refreshAllConnections starts one refresh per stored session; a failed
\* refresh of a pending refresh-all rejects it in that step; it resolves only
\* when every started refresh has fulfilled, with the summaries stored then.
C5_RefreshAllAllOrNothing ==
  [][ /\ Called(ev', "refreshAllConnections") =>
           /\ ev'.sent = Len(connections)
           /\ {t.id : t \in tasks' \ tasks} = MapKeys(connections)
           /\ \A t \in tasks' \ tasks : t.kind = "refresh" /\ t.owner = "all"
           /\ (Len(connections) > 0) => (ev'.outcome = "pending" /\ ra'.started = MapKeys(connections))
      /\ (ra.status = "pending" /\ ev'.resp # NoResponse /\ InfoFailed(ev'.resp)
            /\ \E t \in tasks \ tasks' : t.owner = "all") =>
           /\ ev'.op = "refreshAllConnections"
           /\ ev'.outcome = "throw"
           /\ ra'.status # "pending"
      /\ (ev'.op = "refreshAllConnections" /\ ev'.outcome = "return") =>
           /\ ev'.ret.all = getAllSwitchData(connections')
           /\ ra.status = "pending" =>
                 (~InfoFailed(ev'.resp) /\ ra.started \subseteq ra.done \cup {ev'.arg})
      /\ (ev'.op = "refreshAllConnections" /\ ev'.outcome = "throw") => InfoFailed(ev'.resp)
    ]_vars

\* C5 witness: a refresh-all over two sessions resolved with both summaries
C5_Witness ==
  /\ ev.op = "refreshAllConnections"
  /\ ev.outcome = "return"
  /\ Len(ev.ret.all) >= 2

\* C6: refreshSwitchData throws not-found for an id that is not stored; when
\* its fetch or parse fails it throws that error and the registry is as it was.
C6_RefreshFailureLeavesRegistry ==
  [][ /\ Called(ev', "refreshSwitchData") =>
           /\ MapHas(connections, ev'.arg) <=> ev'.outcome = "pending"
           /\ ~MapHas(connections, ev'.arg) =>
                 (ev'.outcome = "throw" /\ ev'.ret.error = NotFound(ev'.arg))
      /\ (ev'.op \in {"refreshSwitchData", "refreshAllConnections"} /\ ev'.outcome = "throw") =>
           /\ connections' = connections
           /\ ev'.ret.error.message # ""
      /\ (ev'.op = "refreshSwitchData" /\ ev'.resp # NoResponse /\ InfoFailed(ev'.resp)) =>
           /\ ev'.outcome = "throw"
           /\ ~TransportOk(ev'.resp) => ev'.ret.error = TransportError(ev'.resp)
           /\ TransportOk(ev'.resp) =>
                 ev'.ret.error = processSwitchData(ev'.resp.raw, "rnd1").error
    ]_vars

\* C6 witness: the refresh of a stored session threw because the device
\* returned too few results
C6_Witness ==
  /\ ev.op = "refreshSwitchData"
  /\ ev.outcome = "throw"
  /\ TransportOk(ev.resp)
  /\ MapHas(connections, ev.arg)
  /\ MapGet(connections, ev.arg).switchData.status = "online"

\* C7: no step of executeCommands changes the registry; for an id that is
\* not stored it throws not-found and issues no request; a rejected batch
\* leaves the session stored.
C7_ExecLeavesRegistry ==
  [][ ev'.op = "executeCommands" =>
        /\ connections' = connections
        /\ (Called(ev', "executeCommands") /\ ~MapHas(connections, ev'.arg)) =>
              /\ ev'.outcome = "throw"
              /\ ev'.ret.error = NotFound(ev'.arg)
              /\ ev'.sent = 0
              /\ tasks' = tasks
        /\ (Called(ev', "executeCommands") /\ MapHas(connections, ev'.arg)) =>
              (ev'.outcome = "pending" /\ ev'.sent = 1)
    ]_vars

\* C7 witness: the device rejected a command of a stored session, which is
\* still stored
C7_Witness ==
  /\ ev.op = "executeCommands"
  /\ ev.outcome = "throw"
  /\ ev.resp.kind = "apierr"
  /\ MapHas(connections, ev.arg)

\* C8: the error of a batch the device rejected carries the device's message
\* and the results of the commands that ran before the failing one.
C8_ErrorCarriesPartialResults ==
  (ev.op = "executeCommands" /\ ev.resp.kind = "apierr") =>
     /\ ev.outcome = "throw"
     /\ ev.ret.error.message \in {ev.resp.message, "API Error: " \o ev.resp.message}
     /\ ev.ret.error.results = ev.resp.data

\* a call of the service function op just ran (to its await or to a throw)
ServiceRan(op) == svc' # svc /\ svc'.fn = op

\* ['configure', ...at least one command..., 'end']
ConfigureWrapped(commands) ==
  /\ Len(commands) >= 3
  /\ Head(commands) = Configure
  /\ commands[Len(commands)] = End

\* C9: a write operation of the domain services that passes its input checks
\* makes exactly one executeCommands call, whose command list starts with
\* 'configure', ends with 'end' and has at least one command in between; one
\* that fails its checks makes no call.
C9_OneWrappedCall ==
  [][ \A op \in WriteOps : ServiceRan(op) =>
        IF svc'.threw
        THEN /\ svc'.calls = <<>>
             /\ ev'.op = op
             /\ tasks' = tasks
        ELSE /\ Len(svc'.calls) = 1
             /\ ConfigureWrapped(svc'.calls[1].commands)
             /\ Called(ev', "executeCommands")
             /\ ev'.arg = svc'.calls[1].switchId
             /\ ev'.sent <= 1
             /\ ev'.sent = 1 =>
                  \E t \in tasks' \ tasks :
                     /\ tasks' = tasks \cup {t}
                     /\ t.kind = "exec"
                     /\ t.cmds = svc'.calls[1].commands
    ]_vars

\* C9 witness: createVlan with a name that is empty after sanitizing went to
\* the device as configure, vlan 10, end
C9_Witness ==
  /\ svc.fn = "createVlan"
  /\ ~svc.threw
  /\ Len(svc.calls[1].commands) = 3
  /\ \E t \in tasks : t.kind = "exec" /\ t.cmds = svc.calls[1].commands

\* the VLAN id is a number (or the decimal or hex text of one) in [1, 4094]
VlanIdInRange(v) ==
  LET n == IF v.t = "string" THEN (IF Trim(v.s) = <<>> THEN JsNaN ELSE ToNumber(v)) ELSE v
  IN /\ n.t = "number"
     /\ ~LessThan(n, One)
     /\ ~GreaterThan(n, VlanMax)

\* C10: createVlan with a VLAN id that is not a number in [1, 4094] throws
\* and makes no executeCommands call.
C10_VlanIdOutOfRangeRejected ==
  (svc.fn = "createVlan" /\ ~VlanIdInRange(svc.args.v)) =>
     (svc.threw /\ svc.calls = <<>>)

\* cmd starts with the characters of pre
HasPrefix(cmd, pre) == Len(cmd) >= Len(pre) /\ SubSeq(cmd, 1, Len(pre)) = pre

\* what follows pre in cmd
After(cmd, pre) == SubSeq(cmd, Len(pre) + 1, Len(cmd))

\* cs is the decimal text of an integer in [1, 4094]
VlanText(cs) ==
  /\ cs # <<>>
  /\ \A i \in 1..Len(cs) : cs[i] \in Digits
  /\ VlanIdInRange(JsStr(cs))

\* the commands of the last service call
Issued == UNION { {c.commands[i] : i \in 1..Len(c.commands)} : c \in {svc.calls[j] : j \in 1..Len(svc.calls)} }

\* C11: deleteVlan, renameVlan and setInterfaceMode pass no 'no vlan <id>',
\* 'vlan <id>' or 'switchport access vlan <id>' command to executeCommands
\* whose id is not a number in [1, 4094].
C11_VlanCommandsInRange ==
  svc.fn \in {"deleteVlan", "renameVlan", "setInterfaceMode"} =>
    \A cmd \in Issued :
      \A pre \in {<<"n", "o", " ", "v", "l", "a", "n", " ">>, <<"v", "l", "a", "n", " ">>, <<"s", "w", "i", "t", "c", "h", "p", "o", "r", "t", " ", "a", "c", "c", "e", "s", "s", " ", "v", "l", "a", "n", " ">>} :
        HasPrefix(cmd, pre) => VlanText(After(cmd, pre))

\* v is a number (or the text of one) in [lo, hi], lo and hi positive integers
NumberInRange(v, lo, hi) ==
  LET n == IF v.t = "string" THEN (IF Trim(v.s) = <<>> THEN JsNaN ELSE ToNumber(v)) ELSE v
  IN n.t = "number" /\ ~LessThan(n, lo) /\ ~GreaterThan(n, hi)

\* the last service call was given a numeric routing field out of its range:
\* an administrative distance outside 1..255 (none given is the default 1),
\* or an ASN outside 1..4294967295
RoutingFieldOutOfRange ==
  \/ /\ svc.fn = "addStaticRoute"
     /\ svc.args.v.t # "undefined"
     /\ ~NumberInRange(svc.args.v, One, <<"2", "5", "5">>)
  \/ /\ svc.fn = "configureBgp"
     /\ ~NumberInRange(svc.args.v, One, AsnMax)
  \/ /\ svc.fn = "addBgpNeighbor"
     /\ ~NumberInRange(svc.args.v, One, AsnMax) \/ ~NumberInRange(svc.args.w, One, AsnMax)

\* C12: addStaticRoute with an administrative distance outside 1..255,
\* configureBgp with an ASN outside 1..4294967295 and addBgpNeighbor with a
\* local or remote ASN outside 1..4294967295 throw and make no
\* executeCommands call.
C12_RoutingFieldsRangeChecked ==
  RoutingFieldOutOfRange => (svc.threw /\ svc.calls = <<>>)

\* C13: addStaticRoute with a prefix that is not a well-formed IPv4 CIDR or a
\* next hop that is not a well-formed IPv4 address throws and makes no
\* executeCommands call.
C13_RouteShapeChecked ==
  (svc.fn = "addStaticRoute" /\ ~(WellFormedCidr(svc.args.a) /\ WellFormedIp(svc.args.b))) =>
     (svc.threw /\ svc.calls = <<>>)

\* every character of cs is in set
AllIn(cs, set) == \A i \in 1..Len(cs) : cs[i] \in set

\* C14: the name of every 'interface <name>' command that
\* setInterfaceDescription, setInterfaceEnabled and setInterfaceMode emit is
\* made of letters, digits and '/' only, and no description emitted by
\* setInterfaceDescription and no VLAN name emitted by createVlan and
\* renameVlan contains a single or a double quote.
C14_EmittedTextSanitized ==
  /\ (svc.fn \in {"setInterfaceDescription", "setInterfaceEnabled", "setInterfaceMode"}
        /\ ~svc.threw) =>
       /\ HasPrefix(svc.calls[1].commands[2], <<"i", "n", "t", "e", "r", "f", "a", "c", "e", " ">>)
       /\ \A cmd \in Issued :
            HasPrefix(cmd, <<"i", "n", "t", "e", "r", "f", "a", "c", "e", " ">>) =>
              AllIn(After(cmd, <<"i", "n", "t", "e", "r", "f", "a", "c", "e", " ">>), Letters \cup Digits \cup {"/"})
  /\ (svc.fn = "setInterfaceDescription" /\ ~svc.threw) =>
       /\ HasPrefix(svc.calls[1].commands[3], <<"d", "e", "s", "c", "r", "i", "p", "t", "i", "o", "n", " ">>)
       /\ \A cmd \in Issued :
            HasPrefix(cmd, <<"d", "e", "s", "c", "r", "i", "p", "t", "i", "o", "n", " ">>) =>
              \A i \in 1..Len(cmd) : cmd[i] \notin {"'", "\""}
  /\ (svc.fn \in {"createVlan", "renameVlan"} /\ ~svc.threw) =>
       \A cmd \in Issued :
         HasPrefix(cmd, <<"n", "a", "m", "e", " ">>) => \A i \in 1..Len(cmd) : cmd[i] \notin {"'", "\""}

\* C14 witness: setInterfaceDescription was called with an interface name
\* holding ';' and a description holding a double quote, and its commands
\* went to the device
C14_Witness ==
  /\ svc.fn = "setInterfaceDescription"
  /\ \E i \in 1..Len(svc.args.a) : svc.args.a[i] = ";"
  /\ \E i \in 1..Len(svc.args.b) : svc.args.b[i] = "\""
  /\ \E t \in tasks : t.kind = "exec" /\ t.cmds = svc.calls[1].commands

\* the service function op returned to its caller in the last step
Returned(op) == ev.op = op /\ ev.outcome = "return"

\* C15: once the device has applied the 'ip route' command of
\* addStaticRoute(p, n) for a well-formed prefix p and next hop n, the routes
\* that getStaticRoutes returns hold a record with prefix p and nextHop n.
C15_RouteRoundTrip ==
  (/\ Returned("getStaticRoutes")
   /\ dev.wrote.fn = "addStaticRoute"
   /\ WellFormedCidr(dev.wrote.args.a) /\ WellFormedIp(dev.wrote.args.b)) =>
     \E i \in 1..Len(ev.ret.results) :
        /\ ev.ret.results[i].prefix = dev.wrote.args.a
        /\ ev.ret.results[i].nextHop = dev.wrote.args.b

\* C15 witness: a route with distance 10 was added after another one, and
\* getStaticRoutes returned both, the second with that distance
C15_Witness ==
  /\ Returned("getStaticRoutes")
  /\ dev.wrote.fn = "addStaticRoute"
  /\ Len(ev.ret.results) = 2
  /\ ev.ret.results[2].prefix = dev.wrote.args.a
  /\ ev.ret.results[2].adminDistance = JsNum(FALSE, <<"1", "0">>, <<>>)

\* the records of the last result whose id is the number v
RecordsWithId(v) == {i \in 1..Len(ev.ret.results) : ev.ret.results[i].id = ToNumber(v)}

\* C16: once the device has applied createVlan(id, name), getVlans returns
\* exactly one record with that id, and it has that name; once it has
\* applied deleteVlan(id), getVlans returns no record with that id.
C16_VlanRoundTrip ==
  /\ (Returned("getVlans") /\ dev.wrote.fn = "createVlan") =>
       /\ Cardinality(RecordsWithId(dev.wrote.args.v)) = 1
       /\ \A i \in RecordsWithId(dev.wrote.args.v) : ev.ret.results[i].name = dev.wrote.args.a
  /\ (Returned("getVlans") /\ dev.wrote.fn = "deleteVlan") =>
       RecordsWithId(dev.wrote.args.v) = {}

\* C17: two parses of the same 7 command results give the same summary in
\* every field, the id included.
C17_ParseDeterministic ==
  [][ (/\ ev.op = "processSwitchData"
       /\ ev'.op = "processSwitchData"
       /\ ev.resp.raw.len = 7
       /\ ev'.resp.raw = ev.resp.raw) => ev'.ret = ev.ret ]_vars

\* C18: a parse of fewer than 4 results throws the incomplete-data error; a
\* parse of 4, 5 or 6 results returns, with cpuUsage and memoryUsage 0 (the
\* top-processes result is absent) and, for 4 results, temperature 0 (the
\* temperature result is absent).
C18_AbsentResultsDegradeToZero ==
  ev.op = "processSwitchData" =>
    /\ ev.resp.raw.len < 4 =>
         /\ ev.outcome = "throw"
         /\ ev.ret.error.message = "Incomplete data received from switch"
    /\ ev.resp.raw.len \in 4..6 =>
         /\ ev.outcome = "return"
         /\ ev.ret.switchData.cpuUsage = 0
         /\ ev.ret.switchData.memoryUsage = 0
         /\ ev.resp.raw.len = 4 => ev.ret.switchData.temperature = 0

\* C19: every summary the parser returns has cpuUsage and memoryUsage
\* within 0..100 and no more active interfaces than interfaces.
C19_SummaryFiguresInRange ==
  Returned("processSwitchData") =>
    /\ ev.ret.switchData.cpuUsage \in 0..100
    /\ ev.ret.switchData.memoryUsage \in 0..100
    /\ ev.ret.switchData.activeInterfaces <= ev.ret.switchData.totalInterfaces

\* C20: the summary stored for a session has status "online" when the info
\* fetch that just settled for it (the connect or a refresh) succeeded, and
\* a status other than "online" when that fetch failed.
C20_StatusTracksLastFetch ==
  \A i \in 1..Len(connections) :
    /\ (/\ ev.op \in {"createConnection", "refreshSwitchData"}
        /\ ev.outcome = "return"
        /\ ev.ret.switchData.id = connections[i].key) =>
          connections[i].switchData.status = "online"
    /\ (/\ ev.op = "refreshSwitchData"
        /\ ev.outcome = "throw"
        /\ ev.resp # NoResponse
        /\ ev.arg = connections[i].key) =>
          connections[i].switchData.status # "online"

\* C21: getBgpConfig issues the neighbors request only in the step that
\* consumed the answer to its summary request, and only when the parsed
\* summary has an asn; when the summary text holds 'BGP not active' it
\* returns the default object having issued one request.
C21_NeighborsAfterSummary ==
  [][ /\ (bgp'.phase = "neighbors" /\ bgp.phase # "neighbors") =>
           /\ bgp.phase = "summary"
           /\ TransportOk(ev'.resp)
           /\ ev'.resp.result[1].output = bgp'.summary
           /\ bgp'.config.asn.t = "number"
           /\ bgp'.calls = 2
           /\ \A t \in tasks' : t.kind = "exec" => t.cmds = <<<<"s", "h", "o", "w", " ", "i", "p", " ", "b", "g", "p", " ", "n", "e", "i", "g", "h", "b", "o", "r", "s">>>>
      /\ (/\ ev'.op = "getBgpConfig"
          /\ bgp.phase = "summary"
          /\ TransportOk(ev'.resp)
          /\ Len(ev'.resp.result) > 0
          /\ IndexOf(ev'.resp.result[1].output, <<"B", "G", "P", " ", "n", "o", "t", " ", "a", "c", "t", "i", "v", "e">>, 1) # 0) =>
           /\ ev'.outcome = "return"
           /\ ev'.ret.results = <<BgpConfig(FALSE, JsNull, JsNull, <<>>)>>
           /\ bgp'.calls = 1
           /\ tasks' = {}
    ]_vars

\* C21 witness: a getBgpConfig call returned the default object after a
\* summary that says 'BGP not active' and also holds a router identifier line
C21_Witness ==
  /\ Returned("getBgpConfig")
  /\ bgp.calls = 1
  /\ IndexOf(bgp.summary, <<"B", "G", "P", " ", "n", "o", "t", " ", "a", "c", "t", "i", "v", "e">>, 1) # 0
  /\ IndexOf(bgp.summary, <<"l", "o", "c", "a", "l", " ", "A", "S", " ", "n", "u", "m", "b", "e", "r">>, 1) # 0
  /\ ev.ret.results = <<BgpConfig(FALSE, JsNull, JsNull, <<>>)>>

\* the placements of a 'BGP router identifier <ip>, local AS number <n>'
\* line in a text: the index of the address, of the comma and of the number
IdentifierLines(text) ==
  LET idLit == <<"B", "G", "P", " ", "r", "o", "u", "t", "e", "r", " ", "i", "d", "e", "n", "t", "i", "f", "i", "e", "r", " ">>
      asLit == <<",", " ", "l", "o", "c", "a", "l", " ", "A", "S", " ", "n", "u", "m", "b", "e", "r", " ">>
  IN { m \in [ip : 1..Len(text), comma : 1..Len(text), num : 1..Len(text)] :
         /\ m.ip > Len(idLit)
         /\ SubSeq(text, m.ip - Len(idLit), m.ip - 1) = idLit
         /\ DottedQuad(text, m.ip) = m.comma
         /\ SubSeq(text, m.comma, m.comma + Len(asLit) - 1) = asLit
         /\ m.num = m.comma + Len(asLit)
         /\ text[m.num] \in Digits }

\* C22: the parsed summary is the zero-value object (enabled false, asn
\* null, routerId null, no neighbors) whenever the summary text contains
\* 'BGP not active' or has no router identifier line; otherwise enabled is
\* true and asn and routerId are the values of that line.
C22_SummaryZeroOrEnabled ==
  LET lines == IdentifierLines(bgp.summary)
  IN IF IndexOf(bgp.summary, <<"B", "G", "P", " ", "n", "o", "t", " ", "a", "c", "t", "i", "v", "e">>, 1) # 0 \/ lines = {}
     THEN bgp.config = BgpConfig(FALSE, JsNull, JsNull, <<>>)
     ELSE /\ bgp.config.enabled
          /\ \E m \in lines :
               /\ bgp.config.routerId = JsStr(SubSeq(bgp.summary, m.ip, m.comma - 1))
               /\ bgp.config.asn =
                    ParseInt(JsStr(SubSeq(bgp.summary, m.num, SkipRun(bgp.summary, m.num, Digits) - 1)))

\* the node id of the device a neighbor entry reports
NeighborId(neighbor) ==
  <<"d", "e", "v", "i", "c", "e", "-">> \o SelectSeq(neighbor.remoteChassisId, LAMBDA c : c # ":")

\* the neighbor entries the finished build received, each with the index of
\* the switch that reported it
Reports ==
  { [at |-> topo.got[g].at, neighbor |-> topo.got[g].neighbors[k], k |-> k] :
      <<g, k>> \in { p \in (1..Len(topo.got)) \X (1..4) : p[2] <= Len(topo.got[p[1]].neighbors) } }

\* C23: in a returned graph the node ids are pairwise distinct: an input
\* switch has at most one node even when it is listed twice, and a device
\* reported by two switches has one node and a link from each of them, as
\* many links as there are reports of it.
C23_NodeIdsDistinct ==
  topo.phase = "done" =>
    /\ \A i, j \in 1..Len(topo.nodes) : topo.nodes[i].id = topo.nodes[j].id => i = j
    /\ \A i \in 1..Len(topo.switches) :
         Cardinality({n \in 1..Len(topo.nodes) : topo.nodes[n].id = IdChars(topo.switches[i])}) <= 1
    /\ \A r \in Reports :
         /\ Cardinality({n \in 1..Len(topo.nodes) : topo.nodes[n].id = NeighborId(r.neighbor)}) = 1
         /\ \E l \in 1..Len(topo.links) :
              /\ topo.links[l].source = IdChars(topo.switches[r.at])
              /\ topo.links[l].target = NeighborId(r.neighbor)
         /\ Cardinality({l \in 1..Len(topo.links) : topo.links[l].target = NeighborId(r.neighbor)})
              = Cardinality({q \in Reports : NeighborId(q.neighbor) = NeighborId(r.neighbor)})

\* C23 witness: a build over a list that names a switch twice returned a
\* graph where two switches each reported the device aa:bb once
C23_Witness ==
  /\ topo.phase = "done"
  /\ topo.switches = <<"SN-A", "", "SN-A", "rnd1">>
  /\ Len(topo.got) = 2
  /\ \A g \in 1..2 : /\ Len(topo.got[g].neighbors) = 1
                     /\ topo.got[g].neighbors[1].remoteChassisId = <<"a", "a", ":", "b", "b">>
  /\ Len(topo.nodes) = 3
  /\ Len(topo.links) = 2
  /\ topo.links[1].source # topo.links[2].source
  /\ topo.links[1].target = topo.links[2].target

\* the input positions buildNetworkTopology does not skip: a switch with an
\* id, at the first place it is listed
Eligible == { i \in 1..Len(topo.switches) :
                /\ topo.switches[i] # ""
                /\ \A j \in 1..(i - 1) : topo.switches[j] # topo.switches[i] }

\* the input positions one of whose two calls failed
FailedAt == { i \in Eligible : \E e \in 1..Len(topo.log) :
                topo.log[e].at = i /\ topo.log[e].what = "rejected" }

\* C24: the build never rejects because a call of a switch failed; in the
\* returned graph a switch whose neighbor or interface-status call failed is
\* a node without a link starting from it, and every other input switch has
\* its node and, in order, one link to the device of each neighbor entry it
\* reported.
C24_FailSoftPerSwitch ==
  /\ ev.op = "buildNetworkTopology" => ev.outcome # "throw"
  /\ topo.phase = "done" =>
       \A i \in Eligible :
         LET from == SelectSeq(topo.links, LAMBDA l : l.source = IdChars(topo.switches[i]))
         IN /\ \E n \in 1..Len(topo.nodes) :
                 topo.nodes[n].id = IdChars(topo.switches[i]) /\ topo.nodes[n].type = "switch"
            /\ i \in FailedAt => from = <<>>
            /\ i \notin FailedAt =>
                 \E g \in 1..Len(topo.got) :
                   /\ topo.got[g].at = i
                   /\ Len(from) = Len(topo.got[g].neighbors)
                   /\ \A k \in 1..Len(from) :
                        /\ from[k].target = NeighborId(topo.got[g].neighbors[k])
                        /\ from[k].sourcePort = topo.got[g].neighbors[k].localPort
                        /\ \E n \in 1..Len(topo.nodes) : topo.nodes[n].id = from[k].target

\* C24 witness: a build returned after the interface-status call of its first
\* switch failed, with the two links of its second switch
C24_Witness ==
  /\ topo.phase = "done"
  /\ Eligible = {1, 2}
  /\ FailedAt = {1}
  /\ \E e \in 1..Len(topo.log) :
       topo.log[e] = [at |-> 1, call |-> "status", what |-> "rejected"]
  /\ Len(topo.links) = 2
  /\ \A l \in 1..2 : topo.links[l].source = IdChars(topo.switches[2])

\* the requests of the build that are on the wire
TopoTasks(ts) == { t \in ts : t.kind = "exec" /\ t.owner = "topology" }

\* C25: the build has at most one request on the wire; a request is issued
\* for the switch the loop is at, when every request issued before it has
\* been answered, in input order, and the interface-status request of a
\* switch after its neighbors request succeeded; links are added only in the
\* step that consumed the successful answer to the interface-status request
\* of their switch, which is the second of its two calls.
C25_SequentialDiscovery ==
  [][ /\ Cardinality(TopoTasks(tasks')) <= 1
      /\ \A t \in TopoTasks(tasks') \ TopoTasks(tasks) :
           /\ t.id = topo'.switches[topo'.at]
           /\ \A e \in 1..(Len(topo'.log) - 1) :
                /\ topo'.log[e].at <= topo'.log[e + 1].at
                /\ topo'.log[e].what = "issued" =>
                     /\ topo'.log[e + 1].at = topo'.log[e].at
                     /\ topo'.log[e + 1].call = topo'.log[e].call
                     /\ topo'.log[e + 1].what \in {"fulfilled", "rejected"}
           /\ topo'.log[Len(topo'.log)].at = topo'.at
           /\ topo'.log[Len(topo'.log)].what = "issued"
           /\ t.cmds = <<<<"s", "h", "o", "w", " ", "i", "n", "t", "e", "r", "f", "a", "c", "e", "s", " ", "s", "t", "a", "t", "u", "s">>>> =>
                topo'.log[Len(topo'.log) - 1] = [at |-> topo'.at, call |-> "lldp", what |-> "fulfilled"]
      /\ Len(topo'.links) > Len(topo.links) =>
           /\ topo.phase = "status"
           /\ TransportOk(ev'.resp)
           /\ \E t \in TopoTasks(tasks) \ TopoTasks(tasks') :
                /\ t.cmds = <<<<"s", "h", "o", "w", " ", "i", "n", "t", "e", "r", "f", "a", "c", "e", "s", " ", "s", "t", "a", "t", "u", "s">>>>
                /\ t.id = topo.switches[topo.at]
           /\ \E e \in 1..Len(topo.log) :
                topo.log[e] = [at |-> topo.at, call |-> "lldp", what |-> "fulfilled"]
           /\ \A l \in (Len(topo.links) + 1)..Len(topo'.links) :
                topo'.links[l].source = IdChars(topo.switches[topo.at])
           /\ SubSeq(topo'.links, 1, Len(topo.links)) = topo.links
    ]_vars

\* C25 witness: the interface-status request of the second switch is on the
\* wire and the links of the first switch are in the graph
C25_Witness ==
  /\ \E t \in TopoTasks(tasks) : t.cmds = <<<<"s", "h", "o", "w", " ", "i", "n", "t", "e", "r", "f", "a", "c", "e", "s", " ", "s", "t", "a", "t", "u", "s">>>>
  /\ topo.phase = "status"
  /\ topo.at = 2
  /\ topo.switches = <<"rnd1", "SN-A">>
  /\ Len(topo.links) = 2
  /\ \A l \in 1..2 : topo.links[l].source = IdChars("rnd1")
  /\ Len(topo.log) = 7

\* the positions in nodes of the tier of position i (the nodes of type
\* 'switch', or the others), in node order up to i
TierUpTo(nodes, i) ==
  { j \in 1..i : (nodes[j].type = "switch") = (nodes[i].type = "switch") }

C28_LinksWellFormed ==
  topo.phase = "done" =>
    \A l \in 1..Len(topo.links) :
      LET link == topo.links[l]
      IN /\ \E n \in 1..Len(topo.nodes) : topo.nodes[n].id = link.source
         /\ \E n \in 1..Len(topo.nodes) : topo.nodes[n].id = link.target
         /\ \E i \in Eligible : IdChars(topo.switches[i]) = link.source
         /\ link.status \in {"up", "down"}
         /\ \E g \in 1..Len(topo.got) :
              /\ IdChars(topo.switches[topo.got[g].at]) = link.source
              /\ link.status = "up" <=>
                   /\ link.sourcePort \in DOMAIN topo.got[g].interfaces
                   /\ topo.got[g].interfaces[link.sourcePort].status = <<"c", "o", "n", "n", "e", "c", "t", "e", "d">>

\* C28 witness: a returned graph with a link that is up, over a port the
\* table reports as 'Connected', and a link that is down
C28_Witness ==
  /\ topo.phase = "done"
  /\ Len(topo.links) = 2
  /\ topo.links[1].status = "up"
  /\ topo.links[2].status = "down"
  /\ topo.links[1].source = topo.links[2].source
  /\ topo.links[1].target # topo.links[2].target

\* C29: in a returned graph the link ids are pairwise distinct, and no two
\* links have the same switch, neighbor and local port.
C29_LinkIdsDistinct ==
  topo.phase = "done" =>
    \A i, j \in 1..Len(topo.links) :
      i # j =>
        /\ topo.links[i].id # topo.links[j].id
        /\ <<topo.links[i].source, topo.links[i].target, topo.links[i].sourcePort>>
             # <<topo.links[j].source, topo.links[j].target, topo.links[j].sourcePort>>

\* C27: a refreshSwitchData call that returns leaves the session of its id
\* with the transport handle and the credentials that were stored for the id
\* right before it completed.
C27_RefreshKeepsHandle ==
  [][ (/\ ev'.op = "refreshSwitchData"
       /\ ev'.outcome = "return"
       /\ MapHas(connections, ev'.arg)) =>
        /\ MapGet(connections', ev'.arg).connection = MapGet(connections, ev'.arg).connection
        /\ MapGet(connections', ev'.arg).credentials = MapGet(connections, ev'.arg).credentials
    ]_vars

\* the lines held in the CLI tab's buffer
BufferedLines(buffer) == FilterBoolean(Split(buffer, "\n"))

\* C30: in the CLI tab 'configure' enters config mode without a remote call;
\* in config mode a line other than 'end' is appended to the buffer and
\* causes no remote call; 'end' makes one executeCli call with 'configure',
\* the buffered lines in entry order and 'end'; and when the handling of
\* 'end' is over the tab is out of config mode and its buffer is empty.
C30_ConfigModeBuffered ==
  [][ ev'.op = "executeCommand" =>
        /\ ev'.arg = "configure" =>
             /\ tasks' = tasks
             /\ cli'.configMode
             /\ cli'.configBuffer = <<>>
        /\ ev'.arg = "buffer" =>
             /\ tasks' = tasks
             /\ cli'.configMode
             /\ BufferedLines(cli'.configBuffer) = Append(BufferedLines(cli.configBuffer), cli'.last.line)
        /\ (ev'.arg = "end" /\ ev'.resp = NoResponse) =>
             /\ cli'.last.called = <<Configure>> \o BufferedLines(cli.configBuffer) \o <<End>>
             /\ Cardinality(tasks' \ tasks) <= 1
             /\ \A t \in tasks' \ tasks : t.cmds = cli'.last.called
        /\ (ev'.arg = "end" /\ ev'.outcome \in {"return", "throw"}) =>
             /\ ~cli'.configMode
             /\ cli'.configBuffer = <<>>
    ]_vars

====
